---- MODULE Spec2Model ----
(***************************************************************************)
(* A model of sift (Tejas242/sift): the HNSW graph of internal/hnsw, its   *)
(* binary persistence, and the index of internal/index that owns a graph,  *)
(* a metadata array, a file cache and a dirty flag under one RWMutex.      *)
(*                                                                         *)
(* Conventions.  Go slices are 0-based; sequences here are 1-based, so     *)
(* node id i is nodes[i+1] and layer l of a node is neighbors[l+1].        *)
(* Vectors are sequences of integers: a unit vector of the program is      *)
(* represented by its components scaled by 5 (all vectors of Vecs have     *)
(* Euclidean norm 5), so sim of the model is 25 times the program's dot    *)
(* product and orders candidates the same way.                             *)
(***************************************************************************)
EXTENDS Integers, Sequences, FiniteSets, TLC

VARIABLES
    graph,      \* SpecGraph: the *Graph under test (hnsw.go:42-52)
    rngStream,  \* floor(-log2 r) of the values r of rand.NewSource(42), by position
    gfile,      \* SpecGraph: the file written by Save
    loaded,     \* SpecGraph: what Load returned for gfile, once called
    idxGraph,   \* Index.graph (index.go:57)
    chunks,     \* Index.chunks (index.go:58)
    fileCache,  \* Index.fileCache (index.go:59)
    dirty,      \* Index.dirty (index.go:62)
    mu,         \* Index.mu: [writer, readers]
    hnswFile,   \* dir/hnsw.bin
    metaFile,   \* dir/meta.json
    mtime,      \* the modification time of each source file
    thr,        \* each thread's current call: its position and locals
    budget,     \* calls that may still be started
    openErr,    \* the error Open returned, "" when it returned an index
    epoch       \* how many times the process has been started

gvars == <<graph, gfile, loaded>>
ivars == <<idxGraph, chunks, fileCache, dirty, mu, hnswFile, metaFile, mtime,
           thr, budget, openErr, epoch>>
vars == <<gvars, rngStream, ivars>>

(***************************************************************************)
(* Bounds of the model.                                                    *)
(***************************************************************************)
MaxNodes == 7       \* inserts per graph
MaxSaved == 3       \* inserts before a graph is saved
MaxK == 2           \* largest k of a Search

\* Unit vectors (scaled by 5) the tests' randomVec / l2Normalize can produce.
Vecs == {<<5, 0>>, <<4, 3>>, <<0, 5>>}

DefaultM == 16
DefaultEfConstruction == 200
DefaultEfSearch == 50

\* A path at which no file exists, and a file of the given bytes.
NoFile == [exists |-> FALSE, bytes |-> <<>>]
File(bytes) == [exists |-> TRUE, bytes |-> bytes]

Min(a, b) == IF a < b THEN a ELSE b
Max(a, b) == IF a > b THEN a ELSE b

\* The function f on 1..n as a sequence value.
ToSeq(f) == SubSeq(f, 1, Len(f))

\* s with the elements at 0-based positions i and j exchanged (h[i], h[j] = h[j], h[i]).
Swap(s, i, j) == [s EXCEPT ![i + 1] = s[j + 1], ![j + 1] = s[i + 1]]

(***************************************************************************)
(* hnsw.go                                                                 *)
(***************************************************************************)

\* The seed of rand.NewSource(42), hnsw.go:70 and persist.go:135.
sourceSeed == 42

\* New with the generator seeded from the clock: seed 0 stands for a value
\* that differs from graph to graph.
NewSeededByClock(m, efConstruction, efSearch) ==
    [nodes          |-> <<>>,
     entryPoint     |-> 0,
     maxLayer       |-> 0,
     m              |-> IF m <= 0 THEN DefaultM ELSE m,
     efConstruction |-> IF efConstruction <= 0 THEN DefaultEfConstruction
                        ELSE efConstruction,
     efSearch       |-> IF efSearch <= 0 THEN DefaultEfSearch ELSE efSearch,
     seed           |-> 0,
     rng            |-> 0]

\* New: parameters <= 0 are replaced by the defaults; no nodes; the graph's
\* own generator, seeded with sourceSeed, nothing drawn from it yet.
New(m, efConstruction, efSearch) ==
    [nodes          |-> <<>>,
     entryPoint     |-> 0,
     maxLayer       |-> 0,
     m              |-> IF m <= 0 THEN DefaultM ELSE m,
     efConstruction |-> IF efConstruction <= 0 THEN DefaultEfConstruction
                        ELSE efConstruction,
     efSearch       |-> IF efSearch <= 0 THEN DefaultEfSearch ELSE efSearch,
     seed           |-> sourceSeed,
     rng            |-> 0]

GraphLen(g) == Len(g.nodes)

\* The generator of rand.New(rand.NewSource(42)): for the values r its
\* Float64 yields first, floor(-log2(r)).  The stream of a seed is fixed:
\* every generator of that seed yields it.  g.rng is the number of values
\* the graph's generator has already yielded.
seed42 == <<1, 3, 0, 2, 4>>

\* log2 of m, for the powers of two the graphs are built with.
RECURSIVE log2(_)
log2(m) == IF m <= 1 THEN 0 ELSE 1 + log2(m \div 2)

\* randomLevel: floor(-ln(r) * ml) with ml = 1 / ln(m), which is
\* floor(-log2(r) / log2(m)), for the next value r of the generator.
randomLevel(g, stream) == stream[g.rng + 1] \div log2(g.m)

RECURSIVE simFrom(_, _, _)
simFrom(a, b, i) ==
    IF i > Len(a) THEN 0 ELSE a[i] * b[i] + simFrom(a, b, i + 1)

\* sim: dot product, ranging over the indices of a.
sim(a, b) == simFrom(a, b, 1)

\* maxHeap.Less
maxHeapLess(h, i, j) == h[i + 1].dist > h[j + 1].dist

\* container/heap up and down, as used by heap.Push and heap.Pop on maxHeap.
RECURSIVE heapUp(_, _)
heapUp(h, j) ==
    LET i == IF j = 0 THEN 0 ELSE (j - 1) \div 2
    IN  IF i = j \/ ~maxHeapLess(h, j, i) THEN h
        ELSE heapUp(Swap(h, i, j), i)

RECURSIVE heapDown(_, _, _)
heapDown(h, i, n) ==
    LET j1 == 2 * i + 1
    IN  IF j1 >= n THEN h
        ELSE LET j2 == j1 + 1
                 j  == IF j2 < n /\ maxHeapLess(h, j2, j1) THEN j2 ELSE j1
             IN  IF ~maxHeapLess(h, j, i) THEN h
                 ELSE heapDown(Swap(h, i, j), j, n)

heapPush(h, x) == heapUp(Append(h, x), Len(h))

heapPop(h) ==
    LET n  == Len(h) - 1
        h1 == heapDown(Swap(h, 0, n), 0, n)
    IN  [top |-> h1[n + 1], rest |-> SubSeq(h1, 1, n)]

\* greedySearchLayer, the range over the neighbours of the node that was
\* best when the range started (hnsw.go:243-250).
RECURSIVE greedyScan(_, _, _, _)
greedyScan(g, query, nbs, st) ==
    IF nbs = <<>> THEN st
    ELSE LET nb == Head(nbs)
             s  == sim(query, g.nodes[nb + 1].vec)
         IN  IF s > st.bestSim
             THEN greedyScan(g, query, Tail(nbs),
                             [best |-> nb, bestSim |-> s, changed |-> TRUE])
             ELSE greedyScan(g, query, Tail(nbs), st)

RECURSIVE greedyLoop(_, _, _, _)
greedyLoop(g, query, lc, st) ==
    IF ~st.changed THEN st.best
    ELSE LET nbs == IF lc < Len(g.nodes[st.best + 1].neighbors)
                    THEN g.nodes[st.best + 1].neighbors[lc + 1] ELSE <<>>
         IN  greedyLoop(g, query, lc,
                        greedyScan(g, query, nbs, [st EXCEPT !.changed = FALSE]))

greedySearchLayer(g, query, ep, lc) ==
    greedyLoop(g, query, lc,
               [best |-> ep, bestSim |-> sim(query, g.nodes[ep + 1].vec),
                changed |-> TRUE])

\* The descending exchange sort of hnsw.go:326-332 and 364-370.
RECURSIVE sortInner(_, _, _)
sortInner(W, i, j) ==
    IF j >= Len(W) THEN W
    ELSE sortInner(IF W[j + 1].dist > W[i + 1].dist THEN Swap(W, i, j) ELSE W,
                   i, j + 1)

RECURSIVE sortOuter(_, _)
sortOuter(W, i) ==
    IF i >= Len(W) - 1 THEN W ELSE sortOuter(sortInner(W, i, i + 1), i + 1)

sortDescending(W) == sortOuter(W, 0)

\* minSimInW (hnsw.go:277-285)
RECURSIVE minSimFrom(_, _, _)
minSimFrom(W, i, m) ==
    IF i > Len(W) THEN m
    ELSE minSimFrom(W, i + 1, IF W[i].dist < m THEN W[i].dist ELSE m)

minSimInW(W) == minSimFrom(W, 2, W[1].dist)

\* hnsw.go:310-317: the first element of least similarity is overwritten by
\* the last one and the slice is shortened.
RECURSIVE minIdxFrom(_, _, _)
minIdxFrom(W, i, minIdx) ==
    IF i >= Len(W) THEN minIdx
    ELSE minIdxFrom(W, i + 1,
                    IF W[i + 1].dist < W[minIdx + 1].dist THEN i ELSE minIdx)

removeWorst(W) ==
    LET minIdx == minIdxFrom(W, 1, 0)
        W1     == [W EXCEPT ![minIdx + 1] = W[Len(W)]]
    IN  SubSeq(W1, 1, Len(W) - 1)

\* searchLayer, the loop over the neighbours of the popped candidate
\* (hnsw.go:298-321).  st = [C, W, visited, worstSim].
RECURSIVE searchExpand(_, _, _, _, _)
searchExpand(g, query, ef, nbs, st) ==
    IF nbs = <<>> THEN st
    ELSE LET nb == Head(nbs)
         IN  IF nb \in st.visited
             THEN searchExpand(g, query, ef, Tail(nbs), st)
             ELSE LET s  == sim(query, g.nodes[nb + 1].vec)
                      v1 == st.visited \cup {nb}
                  IN  IF Len(st.W) < ef \/ s > st.worstSim
                      THEN LET c  == [id |-> nb, dist |-> s]
                               W1 == Append(st.W, c)
                               W2 == IF Len(W1) > ef THEN removeWorst(W1) ELSE W1
                           IN  searchExpand(g, query, ef, Tail(nbs),
                                   [C        |-> heapPush(st.C, c),
                                    W        |-> W2,
                                    visited  |-> v1,
                                    worstSim |-> minSimInW(W2)])
                      ELSE searchExpand(g, query, ef, Tail(nbs),
                                        [st EXCEPT !.visited = v1])

\* searchLayer, the loop over C (hnsw.go:287-323).
RECURSIVE searchLoop(_, _, _, _, _)
searchLoop(g, query, ef, lc, st) ==
    IF Len(st.C) = 0 THEN st.W
    ELSE LET p == heapPop(st.C)
             c == p.top
         IN  IF Len(st.W) >= ef /\ c.dist < st.worstSim THEN st.W
             ELSE LET nbs == IF lc < Len(g.nodes[c.id + 1].neighbors)
                             THEN g.nodes[c.id + 1].neighbors[lc + 1] ELSE <<>>
                  IN  searchLoop(g, query, ef, lc,
                          searchExpand(g, query, ef, nbs, [st EXCEPT !.C = p.rest]))

searchLayer(g, query, ep, ef, lc) ==
    LET epSim == sim(query, g.nodes[ep + 1].vec)
        e     == [id |-> ep, dist |-> epSim]
    IN  sortDescending(
            searchLoop(g, query, ef, lc,
                       [C |-> <<e>>, W |-> <<e>>, visited |-> {ep},
                        worstSim |-> epSim]))

\* selectNeighbours: the ids of the first m candidates.
selectNeighbours(candidates, m) ==
    ToSeq([i \in 1..Min(Len(candidates), m) |-> candidates[i].id])

\* The mutant of pruneNeighbours that forgets to cut the sorted list.
pruneNeighboursNoCut(g, id, nbs, maxConn) ==
    LET scored == ToSeq([i \in 1..Len(nbs) |->
                      [id |-> nbs[i],
                       dist |-> sim(g.nodes[id + 1].vec, g.nodes[nbs[i] + 1].vec)]])
        sorted == sortDescending(scored)
    IN  ToSeq([i \in 1..Len(sorted) |-> sorted[i].id])

\* pruneNeighbours: rescore by similarity to node id, sort, keep maxConn.
pruneNeighbours(g, id, nbs, maxConn) ==
    LET scored == ToSeq([i \in 1..Len(nbs) |->
                      [id |-> nbs[i],
                       dist |-> sim(g.nodes[id + 1].vec, g.nodes[nbs[i] + 1].vec)]])
        sorted == sortDescending(scored)
        kept   == IF Len(sorted) > maxConn THEN SubSeq(sorted, 1, maxConn)
                  ELSE sorted
    IN  ToSeq([i \in 1..Len(kept) |-> kept[i].id])

\* Insert, the loop that links the selected neighbours back (hnsw.go:139-149).
RECURSIVE connectBack(_, _, _, _)
connectBack(g, id, selected, lc) ==
    IF selected = <<>> THEN g
    ELSE LET nb       == Head(selected)
             appended == Append(g.nodes[nb + 1].neighbors[lc + 1], id)
             maxConn  == IF lc = 0 THEN 2 * g.m ELSE g.m
             g1       == [g EXCEPT !.nodes[nb + 1].neighbors[lc + 1] = appended]
             g2       == IF Len(appended) > maxConn
                         THEN [g1 EXCEPT !.nodes[nb + 1].neighbors[lc + 1] =
                                  pruneNeighbours(g1, nb, appended, maxConn)]
                         ELSE g1
         IN  connectBack(g2, id, Tail(selected), lc)

\* Insert, the loop over the layers min(level, epLevel) .. 0 (hnsw.go:131-154).
RECURSIVE insertLayers(_, _, _, _, _)
insertLayers(g, id, vec, ep, lc) ==
    IF lc < 0 THEN g
    ELSE LET candidates == searchLayer(g, vec, ep, g.efConstruction, lc)
             selected   == selectNeighbours(candidates, g.m)
             g1         == [g EXCEPT !.nodes[id + 1].neighbors[lc + 1] = selected]
             g2         == connectBack(g1, id, selected, lc)
             ep1        == IF Len(candidates) > 0 THEN candidates[1].id ELSE ep
         IN  insertLayers(g2, id, vec, ep1, lc - 1)

\* The greedy descent loops of Insert (hnsw.go:126-128) and Search (175-177).
RECURSIVE descend(_, _, _, _, _)
descend(g, query, ep, lc, stop) ==
    IF lc <= stop THEN ep
    ELSE descend(g, query, greedySearchLayer(g, query, ep, lc), lc - 1, stop)

\* Insert without lines 156-159: the entry point stays where it is.
InsertKeepsEntry(g, vec, stream) ==
    LET id    == Len(g.nodes)
        level == randomLevel(g, stream)
        nd    == [neighbors |-> ToSeq([l \in 1..(level + 1) |-> <<>>]), vec |-> vec]
        g0    == [g EXCEPT !.nodes = Append(g.nodes, nd), !.rng = g.rng + 1]
    IN  IF id = 0
        THEN [g0 EXCEPT !.entryPoint = 0, !.maxLayer = level]
        ELSE LET ep == descend(g0, vec, g0.entryPoint, g0.maxLayer, level)
             IN  insertLayers(g0, id, vec, ep, Min(level, g0.maxLayer))

\* Insert: the graph after g.Insert(vec), the level taken from the stream.
Insert(g, vec, stream) ==
    LET id    == Len(g.nodes)
        level == randomLevel(g, stream)
        nd    == [neighbors |-> ToSeq([l \in 1..(level + 1) |-> <<>>]), vec |-> vec]
        g0    == [g EXCEPT !.nodes = Append(g.nodes, nd), !.rng = g.rng + 1]
    IN  IF id = 0
        THEN [g0 EXCEPT !.entryPoint = 0, !.maxLayer = level]
        ELSE LET ep == descend(g0, vec, g0.entryPoint, g0.maxLayer, level)
                 g1 == insertLayers(g0, id, vec, ep, Min(level, g0.maxLayer))
             IN  IF level > g0.maxLayer
                 THEN [g1 EXCEPT !.entryPoint = id, !.maxLayer = level]
                 ELSE g1

\* Search without the cut to the first k candidates (hnsw.go:186-188).
SearchNoCut(g, query, k) ==
    IF Len(g.nodes) = 0 THEN <<>>
    ELSE LET ep == descend(g, query, g.entryPoint, g.maxLayer, 0)
             ef == IF k > g.efSearch THEN k ELSE g.efSearch
         IN  searchLayer(g, query, ep, ef, 0)

\* Search: the k nearest neighbours found, as a sequence of [id, dist].
Search(g, query, k) ==
    IF Len(g.nodes) = 0 THEN <<>>
    ELSE LET ep         == descend(g, query, g.entryPoint, g.maxLayer, 0)
             ef         == IF k > g.efSearch THEN k ELSE g.efSearch
             candidates == searchLayer(g, query, ep, ef, 0)
         IN  IF Len(candidates) > k THEN SubSeq(candidates, 1, k) ELSE candidates

(***************************************************************************)
(* persist.go.  A file is a sequence of bytes (0..255), little-endian.     *)
(* The IEEE-754 bit pattern of a float32 component is represented by the   *)
(* 32-bit two's-complement pattern of the scaled integer component.        *)
(***************************************************************************)
magic == <<83, 72, 78, 87>>     \* 'S', 'H', 'N', 'W'

formatVersion == 1

RECURSIVE Pow(_, _)
Pow(b, e) == IF e = 0 THEN 1 ELSE b * Pow(b, e - 1)

\* binary.Write of an integer of n <= 4 bytes: byte i holds bits 8(i-1) to
\* 8i-1 of v, which for a conversion uintN(v) are the low 8n bits of v and for
\* a negative v its two's-complement pattern (\div rounds down).
LittleEndian(v, n) == ToSeq([i \in 1..n |-> (v \div Pow(256, i - 1)) % 256])

writeU8(v)  == LittleEndian(v, 1)
writeU16(v) == LittleEndian(v, 2)
writeU32(v) == LittleEndian(v, 4)
writeF32(v) == LittleEndian(v, 4)

\* The loops of Save from element i on: the bytes of each element, one
\* after the other.
RECURSIVE saveVec(_, _)
saveVec(vec, i) ==
    IF i > Len(vec) THEN <<>> ELSE writeF32(vec[i]) \o saveVec(vec, i + 1)

RECURSIVE saveNeighbors(_, _)
saveNeighbors(layer, i) ==
    IF i > Len(layer) THEN <<>> ELSE writeU32(layer[i]) \o saveNeighbors(layer, i + 1)

saveLayer(layer) == writeU16(Len(layer)) \o saveNeighbors(layer, 1)

RECURSIVE saveLayers(_, _)
saveLayers(layers, i) ==
    IF i > Len(layers) THEN <<>> ELSE saveLayer(layers[i]) \o saveLayers(layers, i + 1)

\* The mutant of saveNode that writes the vector length in one byte less
\* than the reader expects.
saveNodeShortLen(n) ==
    writeU8(Len(n.neighbors)) \o writeU8(Len(n.vec))
        \o saveVec(n.vec, 1)
        \o saveLayers(n.neighbors, 1)

\* Save, one node record (persist.go:56-68).
saveNode(n) ==
    writeU8(Len(n.neighbors)) \o writeU16(Len(n.vec))
        \o saveVec(n.vec, 1)
        \o saveLayers(n.neighbors, 1)

RECURSIVE saveNodes(_, _)
saveNodes(nodes, i) ==
    IF i > Len(nodes) THEN <<>> ELSE saveNode(nodes[i]) \o saveNodes(nodes, i + 1)

\* Save: the bytes written to the file when no write fails.
Save(g) ==
    magic \o writeU16(formatVersion) \o writeU32(Len(g.nodes))
        \o writeU32(g.entryPoint) \o writeU8(g.maxLayer) \o writeU16(g.m)
        \o writeU16(g.efConstruction) \o writeU16(g.efSearch)
        \o saveNodes(g.nodes, 1)

\* binaryReader: r = [pos, err], pos the number of bytes consumed.  After the
\* first error every read leaves the destination zero (persist.go:171-176).
readN(bytes, r, n) ==
    IF r.err THEN [val |-> ToSeq([i \in 1..n |-> 0]), r |-> r]
    ELSE IF r.pos + n > Len(bytes)
         THEN [val |-> ToSeq([i \in 1..n |-> 0]),
               r   |-> [pos |-> Len(bytes), err |-> TRUE]]
         ELSE [val |-> SubSeq(bytes, r.pos + 1, r.pos + n),
               r   |-> [pos |-> r.pos + n, err |-> FALSE]]

RECURSIVE FromLittleEndian(_, _)
FromLittleEndian(bs, i) ==
    IF i > Len(bs) THEN 0 ELSE bs[i] + 256 * FromLittleEndian(bs, i + 1)

readUint(bytes, r, n) ==
    LET x == readN(bytes, r, n) IN [val |-> FromLittleEndian(x.val, 1), r |-> x.r]

readU8(bytes, r)  == readUint(bytes, r, 1)
readU16(bytes, r) == readUint(bytes, r, 2)
readU32(bytes, r) == readUint(bytes, r, 4)

\* The four bytes read back as the signed 32-bit pattern they hold.
readF32(bytes, r) ==
    LET x   == readN(bytes, r, 4)
        low == FromLittleEndian(SubSeq(x.val, 1, 3), 1)
        top == IF x.val[4] >= 128 THEN x.val[4] - 256 ELSE x.val[4]
    IN  [val |-> low + Pow(256, 3) * top, r |-> x.r]

\* The loops of Load: count elements read one after the other into acc;
\* after the first error the reader stays where it failed.
RECURSIVE readVec(_, _, _, _)
readVec(bytes, r, count, acc) ==
    IF count = 0 \/ r.err THEN [val |-> acc, r |-> r]
    ELSE LET x == readF32(bytes, r)
         IN  readVec(bytes, x.r, count - 1, Append(acc, x.val))

RECURSIVE readNeighbors(_, _, _, _)
readNeighbors(bytes, r, count, acc) ==
    IF count = 0 \/ r.err THEN [val |-> acc, r |-> r]
    ELSE LET x == readU32(bytes, r)
         IN  readNeighbors(bytes, x.r, count - 1, Append(acc, x.val))

readLayer(bytes, r) ==
    LET nbCount == readU16(bytes, r)
    IN  readNeighbors(bytes, nbCount.r, nbCount.val, <<>>)

RECURSIVE readLayers(_, _, _, _)
readLayers(bytes, r, count, acc) ==
    IF count = 0 \/ r.err THEN [val |-> acc, r |-> r]
    ELSE LET x == readLayer(bytes, r)
         IN  readLayers(bytes, x.r, count - 1, Append(acc, x.val))

\* Load, one node record (persist.go:107-121).
loadNode(bytes, r) ==
    LET layerCount == readU8(bytes, r)
        vecLen     == readU16(bytes, layerCount.r)
        vec        == readVec(bytes, vecLen.r, vecLen.val, <<>>)
        neighbors  == readLayers(bytes, vec.r, layerCount.val, <<>>)
    IN  [val |-> [neighbors |-> neighbors.val, vec |-> vec.val], r |-> neighbors.r]

RECURSIVE loadNodes(_, _, _, _)
loadNodes(bytes, r, count, acc) ==
    IF count = 0 \/ r.err THEN [val |-> acc, r |-> r]
    ELSE LET x == loadNode(bytes, r)
         IN  loadNodes(bytes, x.r, count - 1, Append(acc, x.val))

\* The nil *Graph Load returns beside an error.
NoGraph ==
    [nodes |-> <<>>, entryPoint |-> 0, maxLayer |-> 0, m |-> 0,
     efConstruction |-> 0, efSearch |-> 0, seed |-> 0, rng |-> 0]

\* Load without the version check of persist.go:89-92.
LoadAnyVersion(bytes) ==
    LET gotMagic       == readN(bytes, [pos |-> 0, err |-> FALSE], 4)
        version        == readU16(bytes, gotMagic.r)
        nodeCount      == readU32(bytes, version.r)
        entryPoint     == readU32(bytes, nodeCount.r)
        maxLayer       == readU8(bytes, entryPoint.r)
        m              == readU16(bytes, maxLayer.r)
        efConstruction == readU16(bytes, m.r)
        efSearch       == readU16(bytes, efConstruction.r)
        nodes          == loadNodes(bytes, efSearch.r, nodeCount.val, <<>>)
    IN  IF gotMagic.val # magic THEN [err |-> "magic", g |-> NoGraph]
        ELSE IF efSearch.r.err THEN [err |-> "header", g |-> NoGraph]
        ELSE IF nodes.r.err THEN [err |-> "nodes", g |-> NoGraph]
        ELSE [err |-> "",
              g   |-> [nodes          |-> nodes.val,
                       entryPoint     |-> entryPoint.val,
                       maxLayer       |-> maxLayer.val,
                       m              |-> m.val,
                       efConstruction |-> efConstruction.val,
                       efSearch       |-> efSearch.val,
                       seed           |-> sourceSeed,
                       rng            |-> 0]]

\* Load: [err, g]; err is "" and g the graph, or err names the failing check.
Load(bytes) ==
    LET gotMagic       == readN(bytes, [pos |-> 0, err |-> FALSE], 4)
        version        == readU16(bytes, gotMagic.r)
        nodeCount      == readU32(bytes, version.r)
        entryPoint     == readU32(bytes, nodeCount.r)
        maxLayer       == readU8(bytes, entryPoint.r)
        m              == readU16(bytes, maxLayer.r)
        efConstruction == readU16(bytes, m.r)
        efSearch       == readU16(bytes, efConstruction.r)
        nodes          == loadNodes(bytes, efSearch.r, nodeCount.val, <<>>)
    IN  IF gotMagic.val # magic THEN [err |-> "magic", g |-> NoGraph]
        ELSE IF version.val # formatVersion THEN [err |-> "version", g |-> NoGraph]
        ELSE IF efSearch.r.err THEN [err |-> "header", g |-> NoGraph]
        ELSE IF nodes.r.err THEN [err |-> "nodes", g |-> NoGraph]
        ELSE [err |-> "",
              g   |-> [nodes          |-> nodes.val,
                       entryPoint     |-> entryPoint.val,
                       maxLayer       |-> maxLayer.val,
                       m              |-> m.val,
                       efConstruction |-> efConstruction.val,
                       efSearch       |-> efSearch.val,
                       seed           |-> sourceSeed,
                       rng            |-> 0]]

(***************************************************************************)
(* index.go.  The index of one process: a graph, the metadata array, the   *)
(* file cache and the dirty flag, guarded by idx.mu; the two files of the  *)
(* index directory; and the calls in progress, one per thread, each        *)
(* advancing statement by statement.                                       *)
(***************************************************************************)
Threads == {"t1", "t2"}

\* The indexed tree: two supported files, in the order os.ReadDir lists them.
Paths == {"a.md", "b.md"}
walkDir == <<"a.md", "b.md">>
\* What the first pass of IndexDirWithProgress collects: the files of the
\* tree, or nothing for a root without an eligible file.
emptyDir == <<>>
Walks == {walkDir, emptyDir}
\* The files that are modified while the index lives.
Touched == {"a.md"}

\* Files outside the tree, one for each early return of AddFileCtx: an
\* extension chunker.SupportedExtensions lacks, a file os.Stat fails on
\* (removed after the sniff of isBinary), a file over maxFileSizeBytes, a
\* file os.ReadFile fails on, and a file of whitespace.  They are never
\* modified and never in the file cache.
Unsupported == {"c.bin"}
Missing == {"gone.md"}
TooLarge == {"big.md"}
Unreadable == {"locked.md"}
Blank == {"blank.md"}
Refused == Unsupported \cup Missing \cup TooLarge \cup Unreadable \cup Blank

MaxOps == 2         \* calls started over the life of a process
MaxMtime == 2       \* modification times a file goes through
MaxRestarts == 1    \* times the process is stopped and started again
StreamLen == 32     \* values of the stream that are looked at

batchSize == 4

\* The stream rand.NewSource(42) yields for the index's graph: its first
\* draws are those of seed42, and how it goes on is left open between these.
zeroTail == seed42 \o ToSeq([i \in 1..(StreamLen - Len(seed42)) |-> 0])
IdxStreams == {zeroTail,
               seed42 \o ToSeq([i \in 1..(StreamLen - Len(seed42)) |->
                                  IF i % 3 = 2 THEN log2(DefaultM) ELSE 0])}

\* Files of more than batchSize chunks are embedded in several batches.
NumChunks(path) ==
    IF path \in Blank THEN 0 ELSE IF path = "a.md" THEN 1 ELSE batchSize + 1

\* chunker.ChunkFile: the chunks of the file as it is now (version ver).
ChunkFile(path, ver) ==
    ToSeq([i \in 1..NumChunks(path) |-> [Path |-> path, Ver |-> ver, Index |-> i - 1]])

\* Words of a chunk's text that a query can contain.
TextWords(text) == IF text.Index = 0 THEN {"alpha"} ELSE {"beta"}

\* embedder.Embed of one text: a unit vector determined by the text.
VecOf == <<(<<5, 0>>), (<<4, 3>>), (<<0, 5>>)>>
EmbedText(text) ==
    VecOf[((text.Index + text.Ver + (IF text.Path = "a.md" THEN 0 ELSE 1)) % 3) + 1]

\* The queries of Search: the query vector EmbedQuery returns and
\* strings.Fields of the lower-cased query, each word with its length.
Queries == {[vec |-> <<5, 0>>, words |-> <<[w |-> "alpha", len |-> 5]>>],
            [vec |-> <<0, 5>>, words |-> <<[w |-> "beta", len |-> 4], [w |-> "of", len |-> 2]>>]}

NoMeta == [exists |-> FALSE, ok |-> FALSE, chunks |-> <<>>]
NoCache == [p \in Paths |-> [in |-> FALSE, mtime |-> 0]]
NoLock == [writer |-> "", readers |-> {}]

\* A thread with no call in progress.  op, path, cancelled, mtime, texts, vecs, i
\* and todo are the call's arguments and locals; ret is what the last
\* AddFileCtx returned and result what the last call returned.  The
\* remaining fields observe the call: known (the cache held the file at the
\* mtime the call saw and the file still had it), fired (the token had
\* fired when a batch was about to start), embedded (the texts embedded
\* when AddFileCtx returned), appended, cached and marked (what the call
\* wrote), sawDirty and wrote (Flush), snap (the graph and metadata
\* when Search took the lock), reranked (the sorted hits Search walked),
\* others (another thread took the write lock of the index while the call
\* was in progress), failed (the paths whose Embed failed during the call),
\* wiped (the records RebuildFromDir discarded), total (the paths the
\* first pass of IndexDirWithProgress collected), started (the AddFileCtx
\* calls its loop has made), firedAt (started when the token fired, -1
\* while it has not).
Idle ==
    [op |-> "none", pc |-> "idle", path |-> "", cancelled |-> FALSE, mtime |-> 0, texts |-> <<>>, vecs |-> <<>>, i |-> 0,
     todo |-> <<>>, query |-> [vec |-> <<>>, words |-> <<>>], k |-> 0,
     hits |-> <<>>, reranked |-> <<>>, results |-> <<>>, ret |-> "", result |-> "",
     known |-> FALSE, fired |-> FALSE, embedded |-> 0, appended |-> 0, cached |-> FALSE,
     marked |-> FALSE, sawDirty |-> FALSE, wrote |-> FALSE, others |-> FALSE, failed |-> {}, wiped |-> 0,
     total |-> 0, started |-> 0, firedAt |-> -1, root |-> <<>>,
     snap |-> [graph |-> NoGraph, chunks |-> <<>>]]

\* No index: the variables of the index while a graph alone is examined.
NoIndex ==
    /\ idxGraph = NoGraph
    /\ chunks = <<>>
    /\ fileCache = NoCache
    /\ dirty = FALSE
    /\ mu = NoLock
    /\ hnswFile = NoFile
    /\ metaFile = NoMeta
    /\ mtime = [p \in Paths |-> 0]
    /\ thr = [t \in Threads |-> Idle]
    /\ budget = 0
    /\ openErr = "none"
    /\ epoch = 0

RECURSIVE cacheFrom(_, _, _)
\* The skip-cache Open rebuilds: for each path the latest Mtime of its chunks.
cacheFrom(cs, i, cache) ==
    IF i > Len(cs) THEN cache
    ELSE LET c == cs[i]
             e == cache[c.Path]
         IN  cacheFrom(cs, i + 1,
                 IF ~e.in \/ c.Mtime > e.mtime
                 THEN [cache EXCEPT ![c.Path] = [in |-> TRUE, mtime |-> c.Mtime]]
                 ELSE cache)

\* Open, given what Load returns for hnsw.bin: [err, graph, chunks,
\* fileCache].  meta.json is read first and must parse, then hnsw.bin must
\* load; a file that is not there leaves the new index's empty value.
openWith(l, hf, mf) ==
    IF mf.exists /\ ~mf.ok
    THEN [err |-> "corrupt meta.json", graph |-> NoGraph, chunks |-> <<>>,
          fileCache |-> NoCache]
    ELSE IF hf.exists /\ l.err # ""
    THEN [err |-> "corrupt hnsw.bin", graph |-> NoGraph, chunks |-> <<>>,
          fileCache |-> NoCache]
    ELSE [err       |-> "",
          graph     |-> IF hf.exists THEN l.g
                        ELSE New(DefaultM, DefaultEfConstruction, DefaultEfSearch),
          chunks    |-> IF mf.exists THEN mf.chunks ELSE <<>>,
          fileCache |-> cacheFrom(IF mf.exists THEN mf.chunks ELSE <<>>, 1, NoCache)]

Open(hf, mf) == openWith(Load(hf.bytes), hf, mf)

\* sync.RWMutex: Lock waits for the writer and all readers, RLock for the writer.
CanLockIgnoringReaders == mu.writer = ""
CanLock == mu.writer = "" /\ mu.readers = {}
CanRLock == mu.writer = ""

\* ctx.Err() of the call's context.
ctxErrNever(t) == FALSE
ctxErr(t) == thr[t].cancelled

\* A call starts while the process has an index and the thread is free; of
\* two free threads, interchangeable, the first takes the call.
CanStart(t) ==
    /\ openErr = "" /\ thr[t].pc = "idle" /\ budget > 0
    /\ t = "t2" => thr["t1"].pc # "idle"

Begin(t, rec) ==
    /\ thr' = [thr EXCEPT ![t] = rec]
    /\ budget' = budget - 1
    /\ UNCHANGED <<gvars, rngStream, idxGraph, chunks, fileCache, dirty, mu,
                   hnswFile, metaFile, mtime, openErr, epoch>>

\* AddFileCtx's return ending the walk of IndexDirWithProgress whatever it
\* returned.
ReturnedEndsWalk(r, ret) ==
    [r EXCEPT !.ret = ret, !.texts = <<>>, !.vecs = <<>>, !.i = 0,
              !.embedded = Len(r.vecs),
              !.failed = IF ret = "EmbedError" THEN r.failed \cup {r.path} ELSE r.failed,
              !.pc = "idle", !.result = IF r.op = "AddFileCtx" THEN ret ELSE "Done",
              !.todo = <<>>]

\* The thread's record after AddFileCtx returned ret: back in the loop of
\* IndexDirWithProgress, or the call is over.
Returned(r, ret) ==
    LET r1 == [r EXCEPT !.ret = ret, !.texts = <<>>, !.vecs = <<>>, !.i = 0,
                        !.embedded = Len(r.vecs),
                        !.failed = IF ret = "EmbedError" THEN r.failed \cup {r.path}
                                   ELSE r.failed]
    IN  IF r.op = "AddFileCtx" THEN [r1 EXCEPT !.pc = "idle", !.result = ret]
        ELSE IF ret = "Cancelled"
        THEN [r1 EXCEPT !.pc = "idle", !.result = ret, !.todo = <<>>]
        ELSE [r1 EXCEPT !.pc = "next"]

Step(t, rec) == thr' = [thr EXCEPT ![t] = rec]

\* A step of thread t that takes idx.mu.Lock() to change the index: the
\* calls in progress on the other threads have had a concurrent writer.
StepWriter(t, rec) ==
    thr' = [u \in Threads |->
              IF u = t THEN rec
              ELSE IF thr[u].pc # "idle" THEN [thr[u] EXCEPT !.others = TRUE]
              ELSE thr[u]]


(* AddFileCtx, lines 133-232. *)

StartAddFileCtx(t, path) ==
    /\ CanStart(t)
    /\ Begin(t, [Idle EXCEPT !.op = "AddFileCtx", !.pc = "stat", !.path = path])

\* info.ModTime() of os.Stat(path), and idx.fileCache[path].
ModTime(path) == IF path \in DOMAIN mtime THEN mtime[path] ELSE 1
Cached(path) ==
    IF path \in DOMAIN fileCache THEN fileCache[path] ELSE [in |-> FALSE, mtime |-> 0]

\* The map after idx.fileCache[path] = m.
cacheSet(cache, path, m) ==
    [p \in DOMAIN cache \cup {path} |->
        IF p = path THEN [in |-> TRUE, mtime |-> m] ELSE cache[p]]

\* chunker.IsSupportedFile, os.Stat and the size limit, lines 134-152: one
\* of the early returns, or the call sees the file's mtime.
AddFileCtxStat(t) ==
    /\ thr[t].pc = "stat"
    /\ LET r == [thr[t] EXCEPT !.ret = "", !.known = FALSE, !.fired = FALSE,
                               !.embedded = 0, !.appended = 0, !.cached = FALSE,
                               !.marked = FALSE]
       IN  IF r.path \in Unsupported THEN Step(t, Returned(r, "Unsupported"))
           ELSE IF r.path \in Missing THEN Step(t, Returned(r, "StatError"))
           ELSE IF r.path \in TooLarge THEN Step(t, Returned(r, "TooLarge"))
           ELSE Step(t, [r EXCEPT !.pc = "cache", !.mtime = ModTime(r.path)])
    /\ UNCHANGED <<gvars, rngStream, idxGraph, chunks, fileCache, dirty, mu,
                   hnswFile, metaFile, mtime, budget, openErr, epoch>>

\* The lookup without its early return.
AddFileCtxCacheNoSkip(t) ==
    /\ thr[t].pc = "cache"
    /\ CanRLock
    /\ LET r     == thr[t]
           e     == Cached(r.path)
           known == e.in /\ e.mtime = r.mtime /\ ModTime(r.path) = r.mtime
       IN  Step(t, [r EXCEPT !.pc = "chunk", !.known = known])
    /\ UNCHANGED <<gvars, rngStream, idxGraph, chunks, fileCache, dirty, mu,
                   hnswFile, metaFile, mtime, budget, openErr, epoch>>

\* The skip-cache lookup under RLock, lines 155-160.
AddFileCtxCache(t) ==
    /\ thr[t].pc = "cache"
    /\ CanRLock
    /\ LET r     == thr[t]
           e     == Cached(r.path)
           known == e.in /\ e.mtime = r.mtime /\ ModTime(r.path) = r.mtime
       IN  IF e.in /\ e.mtime = r.mtime
           THEN Step(t, Returned([r EXCEPT !.known = known], "Skipped"))
           ELSE Step(t, [r EXCEPT !.pc = "chunk", !.known = known])
    /\ UNCHANGED <<gvars, rngStream, idxGraph, chunks, fileCache, dirty, mu,
                   hnswFile, metaFile, mtime, budget, openErr, epoch>>

\* chunker.ChunkFile reads the file as it is now, lines 162-169: it fails,
\* or yields no chunk, or the call goes on to embed the chunks.
AddFileCtxChunk(t) ==
    /\ thr[t].pc = "chunk"
    /\ LET r     == thr[t]
           texts == ChunkFile(r.path, ModTime(r.path))
       IN  IF r.path \in Unreadable THEN Step(t, Returned(r, "ChunkError"))
           ELSE IF Len(texts) = 0 THEN Step(t, Returned(r, "NoChunks"))
           ELSE Step(t, [r EXCEPT !.pc = "embed", !.texts = texts])
    /\ UNCHANGED <<gvars, rngStream, idxGraph, chunks, fileCache, dirty, mu,
                   hnswFile, metaFile, mtime, budget, openErr, epoch>>

\* One round of the batch loop, lines 178-203: the ctx check, then Embed of
\* the next batchSize texts, which succeeds or fails.
AddFileCtxEmbed(t) ==
    /\ thr[t].pc = "embed"
    /\ LET r     == thr[t]
           start == Len(r.vecs)
           end   == Min(start + batchSize, Len(r.texts))
           fired == r.cancelled
           batch == ToSeq([j \in 1..(end - start) |-> EmbedText(r.texts[start + j])])
       IN  IF ctxErr(t)
           THEN Step(t, Returned([r EXCEPT !.fired = fired], "Cancelled"))
           ELSE \E embedOk \in BOOLEAN :
                  IF embedOk
                  THEN Step(t, [r EXCEPT !.fired = fired, !.vecs = r.vecs \o batch,
                                         !.pc = IF end < Len(r.texts) THEN "embed" ELSE "lock"])
                  ELSE Step(t, Returned([r EXCEPT !.fired = fired], "EmbedError"))
    /\ UNCHANGED <<gvars, rngStream, idxGraph, chunks, fileCache, dirty, mu,
                   hnswFile, metaFile, mtime, budget, openErr, epoch>>

\* idx.mu.Lock(), line 208.
AddFileCtxLock(t) ==
    /\ thr[t].pc = "lock"
    /\ CanLock
    /\ mu' = [mu EXCEPT !.writer = t]
    /\ StepWriter(t, [thr[t] EXCEPT !.pc = "append", !.i = 0])
    /\ UNCHANGED <<gvars, rngStream, idxGraph, chunks, fileCache, dirty,
                   hnswFile, metaFile, mtime, budget, openErr, epoch>>

\* idx.chunks = append(idx.chunks, ChunkMeta{...}), lines 216-224.
AddFileCtxAppend(t) ==
    /\ thr[t].pc = "append"
    /\ LET r    == thr[t]
           text == r.texts[r.i + 1]
       IN  /\ chunks' = Append(chunks, [Path |-> r.path, ChunkIndex |-> text.Index,
                                        Text |-> text, Mtime |-> r.mtime])
           /\ Step(t, [r EXCEPT !.pc = "insert"])
    /\ UNCHANGED <<gvars, rngStream, idxGraph, fileCache, dirty, mu,
                   hnswFile, metaFile, mtime, budget, openErr, epoch>>

\* idx.graph.Insert(vec), line 225, and the loop's next round.
AddFileCtxInsert(t) ==
    /\ thr[t].pc = "insert"
    /\ LET r == thr[t]
       IN  /\ idxGraph' = Insert(idxGraph, r.vecs[r.i + 1], rngStream)
           /\ Step(t, [r EXCEPT !.i = r.i + 1, !.appended = r.appended + 1,
                                !.pc = IF r.i + 1 < Len(r.vecs) THEN "append" ELSE "commit"])
    /\ UNCHANGED <<gvars, rngStream, chunks, fileCache, dirty, mu,
                   hnswFile, metaFile, mtime, budget, openErr, epoch>>

\* AddFileCtx returning with idx.mu still locked.
AddFileCtxCommitKeepsLock(t) ==
    /\ thr[t].pc = "commit"
    /\ fileCache' = cacheSet(fileCache, thr[t].path, thr[t].mtime)
    /\ dirty' = TRUE
    /\ mu' = mu
    /\ Step(t, Returned([thr[t] EXCEPT !.cached = TRUE, !.marked = TRUE], "Indexed"))
    /\ UNCHANGED <<gvars, rngStream, idxGraph, chunks,
                   hnswFile, metaFile, mtime, budget, openErr, epoch>>

\* Lines 228-231 and the deferred Unlock.
AddFileCtxCommit(t) ==
    /\ thr[t].pc = "commit"
    /\ fileCache' = cacheSet(fileCache, thr[t].path, thr[t].mtime)
    /\ dirty' = TRUE
    /\ mu' = [mu EXCEPT !.writer = ""]
    /\ Step(t, Returned([thr[t] EXCEPT !.cached = TRUE, !.marked = TRUE], "Indexed"))
    /\ UNCHANGED <<gvars, rngStream, idxGraph, chunks,
                   hnswFile, metaFile, mtime, budget, openErr, epoch>>

(* IndexDirWithProgress, lines 402-430, and RebuildFromDir, lines 379-387. *)

StartIndexDir(t) ==
    /\ CanStart(t)
    /\ \E paths \in Walks, fired \in BOOLEAN :
          Begin(t, [Idle EXCEPT !.op = "IndexDir", !.pc = "next", !.todo = paths,
                                !.total = Len(paths), !.cancelled = fired,
                                !.firedAt = IF fired THEN 0 ELSE -1])

\* RebuildFromDir(ctx, root): root is given by the eligible paths the first
\* pass of the walk collects under it.
StartRebuildFromDir(t, root) ==
    /\ CanStart(t)
    /\ Begin(t, [Idle EXCEPT !.op = "RebuildFromDir", !.pc = "wipe", !.root = root])

\* The wipe without the new graph.
RebuildFromDirWipeKeepsGraph(t) ==
    /\ thr[t].pc = "wipe"
    /\ CanLock
    /\ chunks' = <<>>
    /\ fileCache' = NoCache
    /\ StepWriter(t, [thr[t] EXCEPT !.pc = "next", !.todo = thr[t].root,
                                  !.wiped = Len(chunks), !.total = Len(thr[t].root)])
    /\ UNCHANGED <<gvars, rngStream, idxGraph, dirty, mu,
                   hnswFile, metaFile, mtime, budget, openErr, epoch>>

\* The wipe without the new file cache.
RebuildFromDirWipeKeepsCache(t) ==
    /\ thr[t].pc = "wipe"
    /\ CanLock
    /\ chunks' = <<>>
    /\ idxGraph' = New(DefaultM, DefaultEfConstruction, DefaultEfSearch)
    /\ StepWriter(t, [thr[t] EXCEPT !.pc = "next", !.todo = thr[t].root,
                                  !.wiped = Len(chunks), !.total = Len(thr[t].root)])
    /\ UNCHANGED <<gvars, rngStream, fileCache, dirty, mu,
                   hnswFile, metaFile, mtime, budget, openErr, epoch>>

\* The wipe under idx.mu, lines 380-384, and the first pass of the walk
\* that follows it, over whatever root holds.
RebuildFromDirWipe(t) ==
    /\ thr[t].pc = "wipe"
    /\ CanLock
    /\ chunks' = <<>>
    /\ idxGraph' = New(DefaultM, DefaultEfConstruction, DefaultEfSearch)
    /\ fileCache' = NoCache
    /\ StepWriter(t, [thr[t] EXCEPT !.pc = "next", !.todo = thr[t].root,
                                  !.wiped = Len(chunks), !.total = Len(thr[t].root)])
    /\ UNCHANGED <<gvars, rngStream, dirty, mu,
                   hnswFile, metaFile, mtime, budget, openErr, epoch>>

\* The loop over the paths without the ctx check of lines 418-420.
IndexDirNextNoCtx(t) ==
    /\ thr[t].pc = "next"
    /\ LET r == thr[t]
       IN  IF r.todo = <<>>
           THEN Step(t, [r EXCEPT !.pc = "idle", !.result = "Done"])
           ELSE Step(t, [r EXCEPT !.pc = "stat", !.path = Head(r.todo), !.todo = Tail(r.todo),
                                  !.started = r.started + 1])
    /\ UNCHANGED <<gvars, rngStream, idxGraph, chunks, fileCache, dirty, mu,
                   hnswFile, metaFile, mtime, budget, openErr, epoch>>

\* One round of the loop over the paths, lines 416-429: the loop ends with
\* the paths, and else the ctx check comes before AddFileCtx.
IndexDirNext(t) ==
    /\ thr[t].pc = "next"
    /\ LET r == thr[t]
       IN  IF r.todo = <<>>
           THEN Step(t, [r EXCEPT !.pc = "idle", !.result = "Done"])
           ELSE IF ctxErr(t)
           THEN Step(t, [r EXCEPT !.pc = "idle", !.result = "Cancelled", !.todo = <<>>])
           ELSE Step(t, [r EXCEPT !.pc = "stat", !.path = Head(r.todo), !.todo = Tail(r.todo),
                                  !.started = r.started + 1])
    /\ UNCHANGED <<gvars, rngStream, idxGraph, chunks, fileCache, dirty, mu,
                   hnswFile, metaFile, mtime, budget, openErr, epoch>>

\* The caller cancels the context of a call in progress that takes one.
Cancel(t) ==
    /\ thr[t].pc # "idle"
    /\ thr[t].op \in {"AddFileCtx", "IndexDir", "RebuildFromDir"}
    /\ ~thr[t].cancelled
    /\ Step(t, [thr[t] EXCEPT !.cancelled = TRUE, !.firedAt = thr[t].started])
    /\ UNCHANGED <<gvars, rngStream, idxGraph, chunks, fileCache, dirty, mu,
                   hnswFile, metaFile, mtime, budget, openErr, epoch>>

\* A source file is modified.
Touch(path) ==
    /\ path \in Touched
    /\ mtime[path] < MaxMtime
    /\ mtime' = [mtime EXCEPT ![path] = mtime[path] + 1]
    /\ UNCHANGED <<gvars, rngStream, idxGraph, chunks, fileCache, dirty, mu,
                   hnswFile, metaFile, thr, budget, openErr, epoch>>

(* Search, lines 236-317. *)

\* The k values of Search (fetchK = 5k stays within the range in which
\* sort.Slice is an insertion sort).
SearchKs == {0, 1, 2}

\* strings.Contains over the query words longer than 2, lines 280-285.
RECURSIVE countMatches(_, _, _)
countMatches(words, text, i) ==
    IF i > Len(words) THEN 0
    ELSE (IF words[i].len > 2 /\ words[i].w \in TextWords(text) THEN 1 ELSE 0)
         + countMatches(words, text, i + 1)

\* os.Open(meta.Path) and f.ReadAt succeed, lines 271-274: the file is
\* still there.
CanRead(path) == path \in Paths

\* Lines 265-292 with the boost also for a file that cannot be read.
RECURSIVE rerankBoostsUnread(_, _, _, _, _)
rerankBoostsUnread(hits, cs, words, mt, i) ==
    IF i > Len(hits) THEN <<>>
    ELSE IF hits[i].id >= Len(cs) THEN rerankBoostsUnread(hits, cs, words, mt, i + 1)
    ELSE LET meta == cs[hits[i].id + 1]
             text == [Path |-> meta.Path, Ver |-> ModTime(meta.Path), Index |-> meta.ChunkIndex]
         IN  <<[meta |-> meta,
                score |-> 4 * hits[i].dist + 5 * countMatches(words, text, 1)]>>
             \o rerankBoostsUnread(hits, cs, words, mt, i + 1)

\* Lines 265-292: each hit with its metadata and hybrid score (in 1/100:
\* the similarity is in 1/25 and a match adds 0.05); the chunk's text is
\* read from the file as it is now, and a hit whose file cannot be read
\* keeps its similarity.
RECURSIVE rerank(_, _, _, _, _)
rerank(hits, cs, words, mt, i) ==
    IF i > Len(hits) THEN <<>>
    ELSE IF hits[i].id >= Len(cs) THEN rerank(hits, cs, words, mt, i + 1)
    ELSE LET meta == cs[hits[i].id + 1]
             text == [Path |-> meta.Path, Ver |-> mt[meta.Path], Index |-> meta.ChunkIndex]
         IN  <<[meta |-> meta,
                score |-> IF CanRead(meta.Path)
                          THEN 4 * hits[i].dist + 5 * countMatches(words, text, 1)
                          ELSE 4 * hits[i].dist]>>
             \o rerank(hits, cs, words, mt, i + 1)

\* The less function of line 295 on the positions i and j (from 0) of s.
less(s, i, j) == s[i + 1].score > s[j + 1].score

\* insertionSort_func of the sort package.
RECURSIVE insertDown(_, _)
insertDown(s, j) ==
    IF j > 0 /\ s[j + 1].score > s[j].score
    THEN insertDown(Swap(s, j, j - 1), j - 1) ELSE s

RECURSIVE insertionSort(_, _)
insertionSort(s, i) ==
    IF i >= Len(s) THEN s ELSE insertionSort(insertDown(s, i), i + 1)

\* pdqsort_func of the sort package, which sort.Slice calls on the whole
\* slice: up to maxInsertion elements are sorted by insertion; a longer
\* slice is partitioned around the pivot choosePivot_func picks, unless it
\* is sorted already, and its two sides are sorted in turn.  The sides of a
\* slice of MaxSorted elements have at most maxInsertion elements.
maxInsertion == 12
MaxSorted == 13

\* order2_func: the positions a and b, that of the smaller element first,
\* and the swaps counted.
order2(s, a, b, swaps) ==
    IF less(s, b, a) THEN <<b, a, swaps + 1>> ELSE <<a, b, swaps>>

\* median_func: the position of the median of the elements at a, b and c.
median(s, a, b, c) ==
    LET o1 == order2(s, a, b, 0)
        o2 == order2(s, o1[2], c, o1[3])
        o3 == order2(s, o1[1], o2[1], o2[3])
    IN  [pivot |-> o3[2], swaps |-> o3[3]]

\* choosePivot_func on 8 to 49 elements: the median of three, and no swap
\* counted hints at a sorted slice.
choosePivot(s) ==
    LET q == Len(s) \div 4
    IN  median(s, q, q * 2, q * 3)

\* partialInsertionSort_func on fewer than 50 elements: it moves nothing
\* and reports whether the slice is sorted.
partialInsertionSort(s) == \A i \in 1..(Len(s) - 1) : ~less(s, i, i - 1)

\* partition_func, the pivot at position 0: the scans from both ends and
\* the swaps of the elements they stop at.
RECURSIVE scanUp(_, _, _)
scanUp(s, i, j) == IF i <= j /\ less(s, i, 0) THEN scanUp(s, i + 1, j) ELSE i

RECURSIVE scanDown(_, _, _)
scanDown(s, i, j) == IF i <= j /\ ~less(s, j, 0) THEN scanDown(s, i, j - 1) ELSE j

RECURSIVE partitionLoop(_, _, _)
partitionLoop(s, i, j) ==
    LET i1 == scanUp(s, i, j)
        j1 == scanDown(s, i1, j)
    IN  IF i1 > j1 THEN [s |-> Swap(s, j1, 0), mid |-> j1]
        ELSE partitionLoop(Swap(s, i1, j1), i1 + 1, j1 - 1)

partition(s, pivot) == partitionLoop(Swap(s, 0, pivot), 1, Len(s) - 1)

pdqsort(s) ==
    IF Len(s) <= maxInsertion THEN insertionSort(s, 1)
    ELSE LET p == choosePivot(s)
         IN  IF p.swaps = 0 /\ partialInsertionSort(s) THEN s
             ELSE LET q == partition(s, p.pivot)
                  IN  insertionSort(SubSeq(q.s, 1, q.mid), 1)
                        \o <<q.s[q.mid + 1]>>
                        \o insertionSort(SubSeq(q.s, q.mid + 2, Len(s)), 1)

\* sort.Slice(reranked, less), lines 295-297.
sortSlice(s) == pdqsort(s)

\* The walk of lines 299-315 without the seen map.
RECURSIVE dedupNoSeen(_, _, _, _, _)
dedupNoSeen(reranked, k, i, seen, results) ==
    IF i > Len(reranked) \/ Len(results) >= k THEN results
    ELSE dedupNoSeen(reranked, k, i + 1, seen,
                     Append(results, [Meta |-> reranked[i].meta, Score |-> reranked[i].score]))

\* Lines 299-315: the first k hits of distinct paths.
RECURSIVE dedup(_, _, _, _, _)
dedup(reranked, k, i, seen, results) ==
    IF i > Len(reranked) \/ Len(results) >= k THEN results
    ELSE IF reranked[i].meta.Path \in seen THEN dedup(reranked, k, i + 1, seen, results)
    ELSE dedup(reranked, k, i + 1, seen \cup {reranked[i].meta.Path},
               Append(results, [Meta |-> reranked[i].meta, Score |-> reranked[i].score]))

\* EmbedQuery, lines 237-240, succeeds or fails.
StartSearch(t, query, k) ==
    /\ CanStart(t)
    /\ \E embedOk \in BOOLEAN :
          IF embedOk
          THEN Begin(t, [Idle EXCEPT !.op = "Search", !.pc = "rlock", !.query = query, !.k = k])
          ELSE Begin(t, [Idle EXCEPT !.op = "Search", !.result = "EmbedError"])

\* idx.mu.RLock(), line 242.
SearchRLock(t) ==
    /\ thr[t].pc = "rlock"
    /\ CanRLock
    /\ mu' = [mu EXCEPT !.readers = mu.readers \cup {t}]
    /\ Step(t, [thr[t] EXCEPT !.pc = "fetch", !.snap = [graph |-> idxGraph, chunks |-> chunks]])
    /\ UNCHANGED <<gvars, rngStream, idxGraph, chunks, fileCache, dirty,
                   hnswFile, metaFile, mtime, budget, openErr, epoch>>

\* Lines 246-254: fetchK and the graph search, or the early return.
SearchFetch(t) ==
    /\ thr[t].pc = "fetch"
    /\ LET r      == thr[t]
           fetchK == Min(r.k * 5, Len(chunks))
       IN  IF fetchK = 0
           THEN /\ mu' = [mu EXCEPT !.readers = mu.readers \ {t}]
                /\ Step(t, [r EXCEPT !.pc = "idle", !.result = "Results"])
           ELSE /\ mu' = mu
                /\ Step(t, [r EXCEPT !.pc = "rerank", !.hits = Search(idxGraph, r.query.vec, fetchK)])
    /\ UNCHANGED <<gvars, rngStream, idxGraph, chunks, fileCache, dirty,
                   hnswFile, metaFile, mtime, budget, openErr, epoch>>

\* Lines 256-316, the deferred RUnlock included.
SearchRerank(t) ==
    /\ thr[t].pc = "rerank"
    /\ LET r        == thr[t]
           reranked == sortSlice(rerank(r.hits, chunks, r.query.words, mtime, 1))
       IN  Step(t, [r EXCEPT !.pc = "idle", !.result = "Results", !.hits = <<>>,
                             !.reranked = reranked,
                             !.results = dedup(reranked, r.k, 1, {}, <<>>)])
    /\ mu' = [mu EXCEPT !.readers = mu.readers \ {t}]
    /\ UNCHANGED <<gvars, rngStream, idxGraph, chunks, fileCache, dirty,
                   hnswFile, metaFile, mtime, budget, openErr, epoch>>

(* Flush, lines 320-350. *)

StartFlush(t) ==
    /\ CanStart(t)
    /\ Begin(t, [Idle EXCEPT !.op = "Flush", !.pc = "dirty"])

\* Lines 321-327: the dirty flag is read under RLock.
FlushDirty(t) ==
    /\ thr[t].pc = "dirty"
    /\ CanRLock
    /\ IF dirty
       THEN Step(t, [thr[t] EXCEPT !.pc = "flock", !.sawDirty = TRUE])
       ELSE Step(t, [thr[t] EXCEPT !.pc = "idle", !.result = "ok"])
    /\ UNCHANGED <<gvars, rngStream, idxGraph, chunks, fileCache, dirty, mu,
                   hnswFile, metaFile, mtime, budget, openErr, epoch>>

\* idx.mu.Lock(), line 329.
FlushLock(t) ==
    /\ thr[t].pc = "flock"
    /\ CanLock
    /\ mu' = [mu EXCEPT !.writer = t]
    /\ Step(t, [thr[t] EXCEPT !.pc = "create"])
    /\ UNCHANGED <<gvars, rngStream, idxGraph, chunks, fileCache, dirty,
                   hnswFile, metaFile, mtime, budget, openErr, epoch>>

\* os.Create in Save (persist.go:39) truncates hnsw.bin, or fails.
FlushCreate(t) ==
    /\ thr[t].pc = "create"
    /\ \E createOk \in BOOLEAN :
          IF createOk
          THEN /\ hnswFile' = File(<<>>)
               /\ mu' = mu
               /\ Step(t, [thr[t] EXCEPT !.pc = "save", !.wrote = TRUE])
          ELSE /\ hnswFile' = hnswFile
               /\ mu' = [mu EXCEPT !.writer = ""]
               /\ Step(t, [thr[t] EXCEPT !.pc = "idle", !.result = "save hnsw"])
    /\ UNCHANGED <<gvars, rngStream, idxGraph, chunks, fileCache, dirty,
                   metaFile, mtime, budget, openErr, epoch>>

\* The lengths at which a failing write leaves hnsw.bin: nothing, the
\* header, all but the last byte.
headerLen == Len(Save(NoGraph))
Cuts(bytes) == {c \in {0, headerLen, Len(bytes) - 1} : c < Len(bytes)}

\* The writes of Save (persist.go:47-70): all succeed, or one fails and the
\* file keeps what was written before it.
FlushSave(t) ==
    /\ thr[t].pc = "save"
    /\ LET bytes == Save(idxGraph)
       IN  \/ /\ hnswFile' = File(bytes)
              /\ mu' = mu
              /\ Step(t, [thr[t] EXCEPT !.pc = "meta"])
           \/ \E c \in Cuts(bytes) :
                 /\ hnswFile' = File(SubSeq(bytes, 1, c))
                 /\ mu' = [mu EXCEPT !.writer = ""]
                 /\ Step(t, [thr[t] EXCEPT !.pc = "idle", !.result = "save hnsw"])
    /\ UNCHANGED <<gvars, rngStream, idxGraph, chunks, fileCache, dirty,
                   metaFile, mtime, budget, openErr, epoch>>

\* Lines 339-349.  json.MarshalIndent fails (an Mtime outside the years
\* MarshalJSON accepts) and nothing is written; or os.WriteFile fails
\* before it has truncated the file, fails leaving a truncated file, or
\* fails at Close with the file complete; or it succeeds and idx.dirty
\* becomes false.
FlushMeta(t) ==
    /\ thr[t].pc = "meta"
    /\ \/ /\ metaFile' = [exists |-> TRUE, ok |-> TRUE, chunks |-> chunks]
          /\ dirty' = FALSE
          /\ Step(t, [thr[t] EXCEPT !.pc = "idle", !.result = "ok"])
       \/ /\ metaFile' = metaFile
          /\ dirty' = dirty
          /\ Step(t, [thr[t] EXCEPT !.pc = "idle", !.result = "marshal meta"])
       \/ /\ metaFile' \in {metaFile,
                            [exists |-> TRUE, ok |-> FALSE, chunks |-> <<>>],
                            [exists |-> TRUE, ok |-> TRUE, chunks |-> chunks]}
          /\ dirty' = dirty
          /\ Step(t, [thr[t] EXCEPT !.pc = "idle", !.result = "write meta"])
    /\ mu' = [mu EXCEPT !.writer = ""]
    /\ UNCHANGED <<gvars, rngStream, idxGraph, chunks, fileCache,
                   hnswFile, mtime, budget, openErr, epoch>>

(* The process. *)

\* The process stops, at any point, and is started again: Open on the
\* directory as the stopped process left it.
Restart ==
    /\ epoch < MaxRestarts
    /\ openErr # "none"
    /\ \E o \in {Open(hnswFile, metaFile)} :
           /\ openErr' = o.err
           /\ idxGraph' = o.graph
           /\ chunks' = o.chunks
           /\ fileCache' = o.fileCache
    /\ dirty' = FALSE
    /\ mu' = NoLock
    /\ thr' = [t \in Threads |-> Idle]
    /\ epoch' = epoch + 1
    /\ budget' = MaxOps
    /\ UNCHANGED <<gvars, rngStream, hnswFile, metaFile, mtime>>

\* Open on an empty directory; no graph is examined on its own.
InitIndex ==
    /\ graph = NoGraph
    /\ gfile = NoFile
    /\ loaded = [done |-> FALSE, err |-> "", g |-> NoGraph]
    /\ rngStream \in IdxStreams
    /\ hnswFile = NoFile
    /\ metaFile = NoMeta
    /\ \E o \in {Open(NoFile, NoMeta)} :
           /\ openErr = o.err
           /\ idxGraph = o.graph
           /\ chunks = o.chunks
           /\ fileCache = o.fileCache
    /\ dirty = FALSE
    /\ mu = NoLock
    /\ mtime = [p \in Paths |-> 1]
    /\ thr = [t \in Threads |-> Idle]
    /\ budget = MaxOps
    /\ epoch = 0

NextIndex ==
    \/ \E t \in Threads :
          \/ \E path \in Paths : StartAddFileCtx(t, path)
          \/ AddFileCtxStat(t)
          \/ AddFileCtxCache(t)
          \/ AddFileCtxChunk(t)
          \/ AddFileCtxEmbed(t)
          \/ AddFileCtxLock(t)
          \/ AddFileCtxAppend(t)
          \/ AddFileCtxInsert(t)
          \/ AddFileCtxCommit(t)
          \/ StartIndexDir(t)
          \/ StartRebuildFromDir(t, walkDir)
          \/ RebuildFromDirWipe(t)
          \/ IndexDirNext(t)
          \/ Cancel(t)
          \/ \E query \in Queries, k \in SearchKs : StartSearch(t, query, k)
          \/ SearchRLock(t)
          \/ SearchFetch(t)
          \/ SearchRerank(t)
          \/ StartFlush(t)
          \/ FlushDirty(t)
          \/ FlushLock(t)
          \/ FlushCreate(t)
          \/ FlushSave(t)
          \/ FlushMeta(t)
    \/ \E path \in Touched : Touch(path)

SpecIndex == InitIndex /\ [][NextIndex]_vars

\* The life of the index directory over the runs of the process: the calls
\* that write the index or the directory, and the process stopping.
NextRestart ==
    \/ \E t \in Threads :
          \/ \E path \in Paths : StartAddFileCtx(t, path)
          \/ AddFileCtxStat(t)
          \/ AddFileCtxCache(t)
          \/ AddFileCtxChunk(t)
          \/ AddFileCtxEmbed(t)
          \/ AddFileCtxLock(t)
          \/ AddFileCtxAppend(t)
          \/ AddFileCtxInsert(t)
          \/ AddFileCtxCommit(t)
          \/ StartRebuildFromDir(t, walkDir)
          \/ RebuildFromDirWipe(t)
          \/ IndexDirNext(t)
          \/ Cancel(t)
          \/ StartFlush(t)
          \/ FlushDirty(t)
          \/ FlushLock(t)
          \/ FlushCreate(t)
          \/ FlushSave(t)
          \/ FlushMeta(t)
    \/ Restart

SpecRestart == InitIndex /\ [][NextRestart]_vars

(* Stats, lines 353-376: the counts are read under RLock, released by the *)
(* deferred RUnlock. *)

StartStats(t) ==
    /\ CanStart(t)
    /\ Begin(t, [Idle EXCEPT !.op = "Stats", !.pc = "stats"])

StatsRead(t) ==
    /\ thr[t].pc = "stats"
    /\ CanRLock
    /\ Step(t, [thr[t] EXCEPT !.pc = "idle", !.result = "Stats",
                              !.snap = [graph |-> NoGraph, chunks |-> chunks]])
    /\ UNCHANGED <<gvars, rngStream, idxGraph, chunks, fileCache, dirty, mu,
                   hnswFile, metaFile, mtime, budget, openErr, epoch>>

\* A step of the call in progress on thread t that leaves the graph to
\* itself.
IndexStep(t) ==
    \/ AddFileCtxStat(t)
    \/ AddFileCtxCache(t)
    \/ AddFileCtxChunk(t)
    \/ AddFileCtxEmbed(t)
    \/ AddFileCtxLock(t)
    \/ AddFileCtxAppend(t)
    \/ AddFileCtxCommit(t)
    \/ RebuildFromDirWipe(t)
    \/ IndexDirNext(t)
    \/ SearchRLock(t)
    \/ SearchRerank(t)
    \/ StatsRead(t)
    \/ FlushDirty(t)
    \/ FlushLock(t)
    \/ FlushCreate(t)
    \/ FlushSave(t)
    \/ FlushMeta(t)

\* A step that calls into the graph, Graph.Insert or Graph.Search; thread t
\* can take one exactly when it stands before the call, for both return on
\* every graph.
GraphStep(t) == AddFileCtxInsert(t) \/ SearchFetch(t)
AtGraphStep(t) == thr[t].pc \in {"insert", "fetch"}

\* A step of the call in progress on thread t.
Proceed(t) == IndexStep(t) \/ GraphStep(t)

\* The arguments of the calls whose interleavings are examined: add_file
\* of the one-chunk file (rebuild_from_dir walks both files) and searches
\* for one result.
CallPaths == {"a.md"}
CallKs == {1}

\* A call starts on thread t.
Call(t) ==
    \/ \E path \in CallPaths : StartAddFileCtx(t, path)
    \/ StartRebuildFromDir(t, walkDir)
    \/ \E query \in Queries, k \in CallKs : StartSearch(t, query, k)
    \/ StartStats(t)
    \/ StartFlush(t)

\* Concurrent add_file, rebuild_from_dir, search, stats and flush calls.
NextCalls == \E t \in Threads : Call(t) \/ Proceed(t)

\* The embedder and the file operations return, the scheduler runs every
\* goroutine that can run, and sync.RWMutex lets no waiter starve: a call
\* that can take a step takes one.
\* WF_vars(GraphStep(t)) is written out with AtGraphStep(t) for
\* ENABLED <<GraphStep(t)>>_vars.
FairCalls ==
    \A t \in Threads :
        /\ SF_vars(IndexStep(t))
        /\ ([]<>(~AtGraphStep(t)) \/ []<><<GraphStep(t)>>_vars)

\* Open on an empty directory, the graph drawing level 0 throughout.
InitCalls == InitIndex /\ rngStream = zeroTail

SpecCalls == InitCalls /\ [][NextCalls]_vars /\ FairCalls

\* What AddFileCtx returns at each of its return statements, named by ret:
\* skipped is true at the skip-cache hit of line 159 alone, and err is ctx's
\* error at line 181 and nil everywhere else.
skippedAt(ret) == ret = "Skipped"
errAt(ret) == IF ret = "Cancelled" THEN "context.Canceled" ELSE "nil"

\* One goroutine adding files of every kind, one by one and by a walk over a
\* tree whose files fail in every way a collected file can.
mixedDir == <<"gone.md", "big.md", "locked.md", "blank.md", "b.md", "a.md">>

FilesThread == "t1"

StartIndexTree(t) ==
    /\ CanStart(t)
    /\ Begin(t, [Idle EXCEPT !.op = "IndexDir", !.pc = "next", !.todo = mixedDir,
                             !.total = Len(mixedDir)])

NextFiles ==
    \E t \in {FilesThread} :
        \/ \E path \in Paths \cup Refused : StartAddFileCtx(t, path)
        \/ StartIndexTree(t)
        \/ IndexDirNext(t)
        \/ AddFileCtxStat(t)
        \/ AddFileCtxCache(t)
        \/ AddFileCtxChunk(t)
        \/ AddFileCtxEmbed(t)
        \/ AddFileCtxLock(t)
        \/ AddFileCtxAppend(t)
        \/ AddFileCtxInsert(t)
        \/ AddFileCtxCommit(t)

SpecFiles == InitCalls /\ [][NextFiles]_vars

\* One goroutine rebuilding the index, empty or holding a file, from a root
\* of two good files, of no eligible file, or of files of every kind.
RebuildRoots == {walkDir, emptyDir, mixedDir}

NextRebuildDir ==
    \E t \in {FilesThread} :
        \/ \E path \in Paths : StartAddFileCtx(t, path)
        \/ \E root \in RebuildRoots : StartRebuildFromDir(t, root)
        \/ RebuildFromDirWipe(t)
        \/ IndexDirNext(t)
        \/ Cancel(t)
        \/ AddFileCtxStat(t)
        \/ AddFileCtxCache(t)
        \/ AddFileCtxChunk(t)
        \/ AddFileCtxEmbed(t)
        \/ AddFileCtxLock(t)
        \/ AddFileCtxAppend(t)
        \/ AddFileCtxInsert(t)
        \/ AddFileCtxCommit(t)

SpecRebuildDir == InitCalls /\ [][NextRebuildDir]_vars

\* Lines 256-316 of Search on the hits the graph search hands over.  The
\* index holds the chunks of a.md as indexed at three modification times,
\* of b.md, and of gone.md, which has been removed since: more than
\* maxInsertion and no more than MaxSorted.  A search for
\* RankK results has fetched all of them, their ids in any rotation, with
\* similarities (in 1/25) that do not increase.
rankHistory ==
    <<[path |-> "a.md", ver |-> 1], [path |-> "a.md", ver |-> 2], [path |-> "a.md", ver |-> 3],
      [path |-> "b.md", ver |-> 1], [path |-> "gone.md", ver |-> 1]>>

RECURSIVE metasOf(_, _)
metasOf(history, i) ==
    IF i > Len(history) THEN <<>>
    ELSE LET texts == ChunkFile(history[i].path, history[i].ver)
         IN  ToSeq([j \in 1..Len(texts) |->
                      [Path |-> history[i].path, ChunkIndex |-> texts[j].Index,
                       Text |-> texts[j], Mtime |-> history[i].ver]])
             \o metasOf(history, i + 1)

RankK == 3

RankSims == <<25, 24, 23>>

\* One hit for each chunk the index holds.
RankHits ==
    LET n == Len(metasOf(rankHistory, 1))
    IN  {ToSeq([i \in 1..n |->
                  [id   |-> (i - 1 + rot) % n,
                   dist |-> IF i <= c1 THEN RankSims[1]
                            ELSE IF i <= c2 THEN RankSims[2] ELSE RankSims[3]]]) :
            rot \in 0..(n - 1), c1 \in 0..n, c2 \in 0..n}

InitRank ==
    /\ graph = NoGraph
    /\ gfile = NoFile
    /\ loaded = [done |-> FALSE, err |-> "", g |-> NoGraph]
    /\ rngStream = <<>>
    /\ hnswFile = NoFile
    /\ metaFile = NoMeta
    /\ openErr = ""
    /\ idxGraph = NoGraph
    /\ chunks = metasOf(rankHistory, 1)
    /\ Len(chunks) > maxInsertion
    /\ Len(chunks) <= MaxSorted
    /\ mtime = [p \in Paths |-> IF p = "a.md" THEN 3 ELSE 1]
    /\ fileCache = [p \in Paths |-> [in |-> TRUE, mtime |-> mtime[p]]]
    /\ dirty = TRUE
    /\ mu = [NoLock EXCEPT !.readers = {"t1"}]
    /\ \E query \in Queries, hits \in RankHits :
          thr = [t \in Threads |->
                   IF t = "t1"
                   THEN [Idle EXCEPT !.op = "Search", !.pc = "rerank", !.query = query,
                                     !.k = RankK, !.hits = hits,
                                     !.snap = [graph |-> NoGraph, chunks |-> chunks]]
                   ELSE Idle]
    /\ budget = 0
    /\ epoch = 0

NextRank == \E t \in Threads : SearchRerank(t)

SpecRank == InitRank /\ [][NextRank]_vars

(***************************************************************************)
(* cmd/sift/main.go, the command `sift index <dir>`: thread t1 is the      *)
(* command's goroutine, which calls indexDirs, Flush and the deferred      *)
(* Close; the record of t2 stands for the command's context and the        *)
(* goroutine indexDirs starts, which ends the process when the context is  *)
(* done and indexDirs has not returned a second later.                     *)
(***************************************************************************)

\* The calls of the command on the index: IndexDirWithProgress, Flush, and
\* the Flush of Close.
CommandCalls == 3

\* A process without an index: the command has ended.
CommandEnded == openErr = "none"

\* idx.IndexDirWithProgress(ctx, dir, prog), main.go:131.
CmdIndexDirs ==
    /\ thr["t1"].op = "none"
    /\ CanStart("t1")
    /\ Begin("t1", [Idle EXCEPT !.op = "IndexDir", !.pc = "next", !.todo = walkDir,
                                !.total = Len(walkDir)])

\* SIGINT or SIGTERM while indexDirs runs: the context is done, and the
\* goroutine of main.go:116-128 starts its grace period.
CmdSignal ==
    /\ thr["t1"].op = "IndexDir" /\ thr["t1"].pc # "idle"
    /\ ~thr["t2"].cancelled
    /\ thr' = [thr EXCEPT !["t1"] = [@ EXCEPT !.cancelled = TRUE,
                                              !.firedAt = thr["t1"].started],
                          !["t2"] = [@ EXCEPT !.op = "indexDirs.func1", !.pc = "grace",
                                              !.cancelled = TRUE]]
    /\ UNCHANGED <<gvars, rngStream, idxGraph, chunks, fileCache, dirty, mu,
                   hnswFile, metaFile, mtime, budget, openErr, epoch>>

\* The inner select of main.go:118-126 takes the case of done, which
\* indexDirs closes when it returns: the goroutine returns.
CmdGraceDone ==
    /\ thr["t2"].pc = "grace" /\ ~CommandEnded
    /\ thr["t1"].op # "IndexDir" \/ thr["t1"].pc = "idle"
    /\ thr' = [thr EXCEPT !["t2"] = [@ EXCEPT !.pc = "idle"]]
    /\ UNCHANGED <<gvars, rngStream, idxGraph, chunks, fileCache, dirty, mu,
                   hnswFile, metaFile, mtime, budget, openErr, epoch>>

\* The inner select takes the case of time.After(time.Second): the timer
\* has fired, before done was closed or with both cases ready.  The
\* goroutine goes on to Fprintln, main.go:122, while the command's
\* goroutine runs on.
CmdTimer ==
    /\ thr["t2"].pc = "grace" /\ ~CommandEnded
    /\ thr' = [thr EXCEPT !["t2"] = [@ EXCEPT !.pc = "exiting"]]
    /\ UNCHANGED <<gvars, rngStream, idxGraph, chunks, fileCache, dirty, mu,
                   hnswFile, metaFile, mtime, budget, openErr, epoch>>

\* os.Exit(130), main.go:123, ends the process and with it the command's
\* goroutine wherever it stands: in the walk, in Flush or after it.
CmdHardExit ==
    /\ thr["t2"].pc = "exiting" /\ ~CommandEnded
    /\ openErr' = "none"
    /\ mu' = NoLock
    /\ thr' = [thr EXCEPT !["t1"] = [@ EXCEPT !.pc = "idle", !.result = "exit 130"],
                          !["t2"] = [@ EXCEPT !.pc = "idle", !.result = "exit 130"]]
    /\ UNCHANGED <<gvars, rngStream, idxGraph, chunks, fileCache, dirty,
                   hnswFile, metaFile, mtime, budget, epoch>>

\* indexDirs has returned nil, after the walk or after "Interrupted":
\* idx.Flush(), main.go:162.
CmdFlush ==
    /\ thr["t1"].op = "IndexDir" /\ thr["t1"].pc = "idle" /\ ~CommandEnded
    /\ StartFlush("t1")

\* The deferred idx.Close(), main.go:157, calls Flush once more.
CmdClose ==
    /\ thr["t1"].op = "Flush" /\ thr["t1"].pc = "idle" /\ budget = 1
    /\ StartFlush("t1")

\* The command returns.
CmdReturn ==
    /\ thr["t1"].op = "Flush" /\ thr["t1"].pc = "idle" /\ budget = 0
    /\ ~CommandEnded
    /\ openErr' = "none"
    /\ UNCHANGED <<gvars, rngStream, idxGraph, chunks, fileCache, dirty, mu,
                   hnswFile, metaFile, mtime, thr, budget, epoch>>

\* openIndex on an empty .sift directory.
InitCommand ==
    /\ graph = NoGraph
    /\ gfile = NoFile
    /\ loaded = [done |-> FALSE, err |-> "", g |-> NoGraph]
    /\ rngStream \in IdxStreams
    /\ hnswFile = NoFile
    /\ metaFile = NoMeta
    /\ \E o \in {Open(NoFile, NoMeta)} :
           /\ openErr = o.err
           /\ idxGraph = o.graph
           /\ chunks = o.chunks
           /\ fileCache = o.fileCache
    /\ dirty = FALSE
    /\ mu = NoLock
    /\ mtime = [p \in Paths |-> 1]
    /\ thr = [t \in Threads |-> Idle]
    /\ budget = CommandCalls
    /\ epoch = 0

\* While the command runs, the steps of its goroutine and of the signal.
NextCommand ==
    \/ CmdIndexDirs
    \/ CmdSignal
    \/ CmdGraceDone
    \/ CmdTimer
    \/ CmdHardExit
    \/ CmdFlush
    \/ CmdClose
    \/ CmdReturn
    \/ IndexDirNext("t1")
    \/ AddFileCtxStat("t1")
    \/ AddFileCtxCache("t1")
    \/ AddFileCtxChunk("t1")
    \/ AddFileCtxEmbed("t1")
    \/ AddFileCtxLock("t1")
    \/ AddFileCtxAppend("t1")
    \/ AddFileCtxInsert("t1")
    \/ AddFileCtxCommit("t1")
    \/ FlushDirty("t1")
    \/ FlushLock("t1")
    \/ FlushCreate("t1")
    \/ FlushSave("t1")
    \/ FlushMeta("t1")

SpecCommand == InitCommand /\ [][NextCommand]_vars

(***************************************************************************)
(* SpecGraph: one graph built by a sequence of inserts.                    *)
(* SpecPersist: a graph built by inserts, then saved to a file and loaded  *)
(* back, as TestPersistRoundTrip does.                                     *)
(***************************************************************************)

\* The parameters passed to New for a graph that is built: the smallest m
\* for which randomLevel is defined, with pool sizes above and below the
\* number of nodes.
Params == {<<2, 200, 50>>, <<2, 1, 1>>}

\* The parameters of a graph that is saved: these, the defaults (as 0), and
\* a pool size beyond the 16-bit field of the file format.
PersistParams == Params \cup {<<0, 0, 0>>, <<2, 200, 65537>>}

Levels == {0, 1}

\* What the next draw of the generator of graph g can yield, stream being
\* what is known of the stream of sourceSeed: for a generator of that seed
\* the value of the stream at the generator's position, and past the known
\* prefix, or for a generator of another seed, a value that makes the
\* level 0 or 1.
Drawable(stream, g) ==
    IF g.seed = sourceSeed /\ g.rng < Len(stream) THEN {stream[g.rng + 1]}
    ELSE {lvl * log2(g.m) : lvl \in Levels}

\* What is known of the stream of sourceSeed after the generator of g has
\* yielded bits: a new value of that stream extends the known prefix.
Extend(stream, g, bits) ==
    IF g.seed = sourceSeed /\ g.rng = Len(stream) THEN Append(stream, bits) ELSE stream

\* The values the generator of g has yielded once it has yielded bits, as
\* far as Insert looks at them.
Yielded(stream, g, bits) ==
    IF g.seed = sourceSeed THEN Extend(stream, g, bits)
    ELSE ToSeq([i \in 1..(g.rng + 1) |-> bits])

NotLoaded == [done |-> FALSE, err |-> "", g |-> NoGraph]

InitWith(params) ==
    /\ \E p \in params : graph = New(p[1], p[2], p[3])
    /\ rngStream = seed42
    /\ gfile = NoFile
    /\ loaded = NotLoaded
    /\ NoIndex

InitGraph == InitWith(Params)

InitPersist == InitWith(PersistParams)

\* g.Insert(vec) on the graph under test, while it has fewer than n nodes.
InsertUpTo(n) ==
    /\ ~gfile.exists
    /\ Len(graph.nodes) < n
    /\ \E vec \in Vecs, bits \in Drawable(rngStream, graph) :
          /\ rngStream' = Extend(rngStream, graph, bits)
          /\ graph' = Insert(graph, vec, Yielded(rngStream, graph, bits))
    /\ UNCHANGED <<gfile, loaded, ivars>>

GraphInsert == InsertUpTo(MaxNodes)

NextGraph == GraphInsert

SpecGraph == InitGraph /\ [][NextGraph]_vars

PersistInsert == InsertUpTo(MaxSaved)

\* g.Save(path), no write failing.
GraphSave ==
    /\ ~gfile.exists
    /\ gfile' = File(Save(graph))
    /\ UNCHANGED <<graph, rngStream, loaded, ivars>>

\* Load(path) of the file Save wrote.
GraphLoad ==
    /\ gfile.exists
    /\ ~loaded.done
    /\ loaded' = [done |-> TRUE, err |-> Load(gfile.bytes).err,
                  g |-> Load(gfile.bytes).g]
    /\ UNCHANGED <<graph, rngStream, gfile, ivars>>

NextPersist == PersistInsert \/ GraphSave \/ GraphLoad

SpecPersist == InitPersist /\ [][NextPersist]_vars

\* The files handed to Load in SpecHeader: the file Save wrote, that file
\* with one byte of its magic or version field replaced, and every proper
\* prefix of it (with the empty file).
MaxDamaged == 2

HeaderBytes == {0, 1, 2, 83, 255}

Damaged(bytes) ==
    {bytes}
      \cup {[bytes EXCEPT ![i] = b] : i \in 1..6, b \in HeaderBytes}
      \cup {SubSeq(bytes, 1, n) : n \in 0..(Len(bytes) - 1)}

HeaderInsert == InsertUpTo(MaxDamaged)

\* The file at path before Load(path) opens it.
HeaderFile ==
    /\ ~gfile.exists
    /\ \E bytes \in Damaged(Save(graph)) : gfile' = File(bytes)
    /\ UNCHANGED <<graph, rngStream, loaded, ivars>>

NextHeader == HeaderInsert \/ HeaderFile \/ GraphLoad

SpecHeader == InitGraph /\ [][NextHeader]_vars

\* The files handed to Load in SpecBody: the file Save wrote, and that file
\* with one byte after the version field replaced, in the header's counts
\* and entry point or in a node record.
BodyBytes == {0, 1, 2, 3}

BodyDamaged(bytes) ==
    {bytes} \cup {[bytes EXCEPT ![i] = b] : i \in 7..Len(bytes), b \in BodyBytes}

\* The file at path before Load(path) opens it.
BodyFile ==
    /\ ~gfile.exists
    /\ \E bytes \in BodyDamaged(Save(graph)) : gfile' = File(bytes)
    /\ UNCHANGED <<graph, rngStream, loaded, ivars>>

NextBody == HeaderInsert \/ BodyFile \/ GraphLoad

SpecBody == InitGraph /\ [][NextBody]_vars

\* Inserts of vectors of two lengths into a graph of the default
\* parameters, which prunes no list of so few nodes.  A vector longer than
\* a stored one is left out: sim would index past the stored vector's end.
MaxMixed == 4

ShortVecs == {<<5>>}

Fits(g, vec) == \A i \in 1..Len(g.nodes) : Len(vec) <= Len(g.nodes[i].vec)

MixedInsert ==
    /\ ~gfile.exists
    /\ Len(graph.nodes) < MaxMixed
    /\ \E vec \in Vecs \cup ShortVecs, bits \in Drawable(rngStream, graph) :
          /\ Fits(graph, vec)
          /\ rngStream' = Extend(rngStream, graph, bits)
          /\ graph' = Insert(graph, vec, Yielded(rngStream, graph, bits))
    /\ UNCHANGED <<gfile, loaded, ivars>>

InitMixed == InitWith({<<0, 0, 0>>})

NextMixed == MixedInsert

SpecMixed == InitMixed /\ [][NextMixed]_vars

\* Two fresh graphs of the same parameters, the second held in idxGraph,
\* each made by its own call of New and so with its own generator.  The
\* first is fed any vectors; the second is fed, insert by insert and at its
\* own pace, the vectors the first was fed.
MaxTwin == 6

InitTwin ==
    /\ \E p \in Params :
          /\ graph = New(p[1], p[2], p[3])
          /\ idxGraph = New(p[1], p[2], p[3])
    /\ rngStream = seed42
    /\ gfile = NoFile
    /\ loaded = NotLoaded
    /\ chunks = <<>>
    /\ fileCache = NoCache
    /\ dirty = FALSE
    /\ mu = NoLock
    /\ hnswFile = NoFile
    /\ metaFile = NoMeta
    /\ mtime = [p \in Paths |-> 0]
    /\ thr = [t \in Threads |-> Idle]
    /\ budget = 0
    /\ openErr = "none"
    /\ epoch = 0

\* Insert(vec) on the first graph.
TwinInsertFirst ==
    /\ Len(graph.nodes) < MaxTwin
    /\ \E vec \in Vecs, bits \in Drawable(rngStream, graph) :
          /\ rngStream' = Extend(rngStream, graph, bits)
          /\ graph' = Insert(graph, vec, Yielded(rngStream, graph, bits))
    /\ UNCHANGED <<idxGraph, gfile, loaded, chunks, fileCache, dirty, mu, hnswFile,
                   metaFile, mtime, thr, budget, openErr, epoch>>

\* Insert on the second graph of the next vector of the first graph's
\* insertion sequence, the level drawn from the second graph's generator.
TwinInsertSecond ==
    /\ Len(idxGraph.nodes) < Len(graph.nodes)
    /\ \E bits \in Drawable(rngStream, idxGraph) :
          /\ rngStream' = Extend(rngStream, idxGraph, bits)
          /\ idxGraph' = Insert(idxGraph, graph.nodes[Len(idxGraph.nodes) + 1].vec,
                                Yielded(rngStream, idxGraph, bits))
    /\ UNCHANGED <<graph, gfile, loaded, chunks, fileCache, dirty, mu, hnswFile,
                   metaFile, mtime, thr, budget, openErr, epoch>>

NextTwin == TwinInsertFirst \/ TwinInsertSecond

SpecTwin == InitTwin /\ [][NextTwin]_vars

(***************************************************************************)
(* internal/chunker/chunker.go, chunkBytes: the chunks of one file's       *)
(* bytes.  A text is a sequence of bytes, each written as a string of one  *)
(* character; positions are the 0-based offsets of the source.             *)
(***************************************************************************)
MaxText == 6        \* bytes of a chunked file
MaxWindow == 4      \* largest Options.MaxBytes
MaxOverlap == 5     \* largest Options.OverlapBytes, beyond MaxBytes
MaxLoopText == 5    \* bytes of a file chunked under SpecChunkLoop

\* A letter, the two split characters, and whitespace that is no split point.
Alphabet == {"a", " ", "\n", "\t"}
Texts == UNION {[1..n -> Alphabet] : n \in 0..MaxText}
ChunkOptions == [MaxBytes : 1..MaxWindow, OverlapBytes : 0..MaxOverlap]

\* text[lo:hi]
slice(text, lo, hi) == SubSeq(text, lo + 1, hi)

\* The ASCII bytes unicode.IsSpace holds of.
asciiSpace == {"\t", "\n", "\f", "\r", " "}
\* The cutset of the two strings.TrimLeft calls.
leadingCutset == {" ", "\t", "\n", "\r"}

\* strings.TrimSpace
TrimSpace(s) ==
    LET keep == {i \in 1..Len(s) : s[i] \notin asciiSpace}
    IN  IF keep = {} THEN <<>>
        ELSE SubSeq(s, CHOOSE i \in keep : \A j \in keep : i <= j,
                       CHOOSE i \in keep : \A j \in keep : i >= j)

\* strings.TrimLeft
TrimLeft(s, cutset) ==
    LET keep == {i \in 1..Len(s) : s[i] \notin cutset}
    IN  IF keep = {} THEN <<>>
        ELSE SubSeq(s, CHOOSE i \in keep : \A j \in keep : i <= j, Len(s))

\* strings.LastIndex and strings.Index: the offset of the last and of the
\* first occurrence of sep in s, or -1.
LastIndex(s, sep) ==
    LET at == {i \in 0..(Len(s) - Len(sep)) : slice(s, i, i + Len(sep)) = sep}
    IN  IF at = {} THEN -1 ELSE CHOOSE i \in at : \A j \in at : i >= j

Index(s, sep) ==
    LET at == {i \in 0..(Len(s) - Len(sep)) : slice(s, i, i + Len(sep)) = sep}
    IN  IF at = {} THEN -1 ELSE CHOOSE i \in at : \A j \in at : i <= j

LastIndexByte(s, c) == LastIndex(s, <<c>>)
IndexByte(s, c) == Index(s, <<c>>)

\* bytes.Count of a single byte
Count(s, c) == Cardinality({i \in 1..Len(s) : s[i] = c})

\* The Chunk appended for the window text[start:end], lines 117-125 and
\* 153-161.
chunkOf(text, path, start, end, chunkIdx) ==
    LET window == slice(text, start, end)
        leadingSpaces == Len(window) - Len(TrimLeft(window, leadingCutset))
    IN  [Path      |-> path,
         Text      |-> TrimSpace(window),
         LineNum   |-> 1 + Count(slice(text, 0, start + leadingSpaces), "\n"),
         StartByte |-> start,
         EndByte   |-> end,
         Index     |-> chunkIdx]

\* bestSplit, were the split looked for in text[start:end+1], one byte
\* beyond the window.
bestSplitWide(text, start, end) ==
    LET window == slice(text, start, end + 1)
        para == LastIndex(window, <<"\n", "\n">>)
        line == LastIndex(window, <<"\n">>)
        word == LastIndexByte(window, " ")
    IN  IF para # -1 THEN para + start + 2
        ELSE IF line # -1 THEN line + start + 1
        ELSE IF word # -1 THEN word + start + 1
        ELSE end

\* Lines 130-151: the split point of the window text[start:end].
bestSplit(text, start, end) ==
    LET window == slice(text, start, end)
        para == LastIndex(window, <<"\n", "\n">>)
        line == LastIndex(window, <<"\n">>)
        word == LastIndexByte(window, " ")
    IN  IF para # -1 THEN para + start + 2
        ELSE IF line # -1 THEN line + start + 1
        ELSE IF word # -1 THEN word + start + 1
        ELSE end

\* overlapStart, were the snap to look for a boundary in all of
\* text[overlapStart:] and not only up to the split.
overlapStartSnapsOn(text, opts, start, split) ==
    LET back == split - opts.OverlapBytes
    IN  IF back <= start THEN start + 1
        ELSE LET tail == slice(text, back, Len(text))
                 nextNL == IndexByte(tail, "\n")
                 nextSp == IndexByte(tail, " ")
             IN  IF nextNL # -1 THEN back + nextNL + 1
                 ELSE IF nextSp # -1 THEN back + nextSp + 1
                 ELSE back

\* overlapStart, were the cursor moved on only when the overlap reaches
\* back beyond the start of the window.
overlapStartMayStay(text, opts, start, split) ==
    LET back == split - opts.OverlapBytes
    IN  IF back < start THEN start + 1
        ELSE LET tail == slice(text, back, split)
                 nextNL == IndexByte(tail, "\n")
                 nextSp == IndexByte(tail, " ")
             IN  IF nextNL # -1 THEN back + nextNL + 1
                 ELSE IF nextSp # -1 THEN back + nextSp + 1
                 ELSE back

\* Lines 165-181: where the next window starts.
overlapStart(text, opts, start, split) ==
    LET back == split - opts.OverlapBytes
    IN  IF back <= start THEN start + 1
        ELSE LET tail == slice(text, back, split)
                 nextNL == IndexByte(tail, "\n")
                 nextSp == IndexByte(tail, " ")
             IN  IF nextNL # -1 THEN back + nextNL + 1
                 ELSE IF nextSp # -1 THEN back + nextSp + 1
                 ELSE back

\* The locals of the loop: the cursor, the next index, the chunks appended
\* so far, and whether the loop was left by break.
loopEntry == [start |-> 0, chunkIdx |-> 0, chunks |-> <<>>, broke |-> FALSE]

\* One pass of the loop body, lines 115-183, entered with start < len(text).
iterate(text, path, opts, st) ==
    LET end == st.start + opts.MaxBytes
    IN  IF end >= Len(text)
        THEN [st EXCEPT !.chunks = Append(@, chunkOf(text, path, st.start, Len(text), st.chunkIdx)),
                        !.broke = TRUE]
        ELSE LET split == bestSplit(text, st.start, end)
             IN  [start    |-> overlapStart(text, opts, st.start, split),
                  chunkIdx |-> st.chunkIdx + 1,
                  chunks   |-> Append(st.chunks,
                                      chunkOf(text, path, st.start, split, st.chunkIdx)),
                  broke    |-> FALSE]

\* for start < len(text) { ... }, line 114.
inLoop(text, st) == ~st.broke /\ st.start < Len(text)

RECURSIVE loop(_, _, _, _)
loop(text, path, opts, st) ==
    IF inLoop(text, st) THEN loop(text, path, opts, iterate(text, path, opts, st))
    ELSE st.chunks

\* filtered, were no chunk dropped.
filteredKeepsAll(cs) == cs

\* Lines 187-192: the chunks whose text is not empty.
RECURSIVE filtered(_)
filtered(cs) ==
    IF cs = <<>> THEN <<>>
    ELSE IF Head(cs).Text # <<>> THEN <<Head(cs)>> \o filtered(Tail(cs))
    ELSE filtered(Tail(cs))

\* chunkBytes(data, path, opts); nil is the empty sequence.
chunkBytes(data, path, opts) ==
    IF Len(TrimSpace(data)) = 0 THEN <<>>
    ELSE filtered(loop(data, path, opts, loopEntry))

(***************************************************************************)
(* SpecChunk: one call of chunkBytes by thread t1, on any text of at most  *)
(* MaxText bytes and any options of ChunkOptions, one action for the entry *)
(* check, one for each pass of the loop and one for the filter.            *)
(***************************************************************************)
ChunkThread == "t1"

ChunkCall(data, opts) ==
    [op |-> "chunkBytes", pc |-> "enter", data |-> data, path |-> "a.md", opts |-> opts,
     st |-> loopEntry, passes |-> 0, result |-> <<>>]

InitChunkOn(texts) ==
    /\ graph = NoGraph
    /\ rngStream = <<>>
    /\ gfile = NoFile
    /\ loaded = NotLoaded
    /\ idxGraph = NoGraph
    /\ chunks = <<>>
    /\ fileCache = NoCache
    /\ dirty = FALSE
    /\ mu = NoLock
    /\ hnswFile = NoFile
    /\ metaFile = NoMeta
    /\ mtime = [p \in Paths |-> 1]
    /\ \E data \in texts, opts \in ChunkOptions :
          thr = [t \in Threads |-> IF t = ChunkThread THEN ChunkCall(data, opts) ELSE Idle]
    /\ budget = 0
    /\ openErr = "none"
    /\ epoch = 0

InitChunk == InitChunkOn(Texts)

\* Lines 105-112: text without a byte that is not whitespace yields nil.
ChunkEnter(t) ==
    /\ thr[t].op = "chunkBytes"
    /\ thr[t].pc = "enter"
    /\ thr' = [thr EXCEPT ![t].pc = IF Len(TrimSpace(thr[t].data)) = 0 THEN "done" ELSE "loop"]
    /\ UNCHANGED <<gvars, rngStream, idxGraph, chunks, fileCache, dirty, mu,
                   hnswFile, metaFile, mtime, budget, openErr, epoch>>

\* One pass of the loop, lines 114-184.
ChunkIterate(t) ==
    /\ thr[t].op = "chunkBytes"
    /\ thr[t].pc = "loop"
    /\ LET r == thr[t]
           st == iterate(r.data, r.path, r.opts, r.st)
       IN  thr' = [thr EXCEPT ![t].st = st, ![t].passes = @ + 1,
                              ![t].pc = IF inLoop(r.data, st) THEN "loop" ELSE "filter"]
    /\ UNCHANGED <<gvars, rngStream, idxGraph, chunks, fileCache, dirty, mu,
                   hnswFile, metaFile, mtime, budget, openErr, epoch>>

\* Lines 186-194.
ChunkFilter(t) ==
    /\ thr[t].op = "chunkBytes"
    /\ thr[t].pc = "filter"
    /\ thr' = [thr EXCEPT ![t].result = filtered(thr[t].st.chunks), ![t].pc = "done"]
    /\ UNCHANGED <<gvars, rngStream, idxGraph, chunks, fileCache, dirty, mu,
                   hnswFile, metaFile, mtime, budget, openErr, epoch>>

NextChunk == \E t \in Threads : ChunkEnter(t) \/ ChunkIterate(t) \/ ChunkFilter(t)

SpecChunk == InitChunk /\ [][NextChunk]_vars

\* The call has returned what chunkBytes yields for its arguments.
ChunkReturned(t) == thr[t].op = "chunkBytes" /\ thr[t].pc = "done"

ChunkResultIsChunkBytes ==
    \A t \in Threads :
        ChunkReturned(t) => thr[t].result = chunkBytes(thr[t].data, thr[t].path, thr[t].opts)

\* The loop is a sequence of statements of one goroutine: a call that has
\* a step to take takes it.
FairChunk == WF_vars(NextChunk)

\* SpecChunkLoop: the calls of SpecChunk on the texts of at most MaxLoopText
\* bytes without a tab, the byte that is neither a split point nor a byte
\* of a word.
LoopTexts ==
    {text \in Texts : Len(text) <= MaxLoopText /\ \A i \in 1..Len(text) : text[i] # "\t"}

InitChunkLoop == InitChunkOn(LoopTexts)

SpecChunkLoop == InitChunkLoop /\ [][NextChunk]_vars /\ FairChunk

(***************************************************************************)
(* internal/index/index.go, walkDir and the first pass of                  *)
(* IndexDirWithProgress on a directory tree.  A name is the sequence of    *)
(* its bytes, a path the sequence of the names below the root, and a tree  *)
(* the set of the paths of its files.                                      *)
(***************************************************************************)
MaxFiles == 3       \* files in a tree
MaxDepth == 2       \* directories above a file, below the root

visibleName == <<"a", ".", "m", "d">>
upperName == <<"R", ".", "M", "D">>
hiddenName == <<".", "b", ".", "m", "d">>
binName == <<"c", ".", "b", "i", "n">>
subName == <<"s", "u", "b">>
gitName == <<".", "g", "i", "t">>

FileNames == {visibleName, upperName, hiddenName, binName}
DirNames == {subName, gitName}
\* os.ReadDir returns the entries of a directory sorted by filename.
nameOrder == <<hiddenName, gitName, upperName, visibleName, binName, subName>>

DirPaths == UNION {[1..n -> DirNames] : n \in 0..MaxDepth}
TreeFiles == {dir \o <<name>> : dir \in DirPaths, name \in FileNames}
Trees == {{}} \cup {{f1, f2, f3} : f1 \in TreeFiles, f2 \in TreeFiles, f3 \in TreeFiles}

\* strings.HasPrefix(name, ".")
HasPrefixDot(name) == Len(name) >= 1 /\ name[1] = "."

\* strings.ToLower on the letters of the names.
toLowerByte(c) ==
    CASE c = "R" -> "r" [] c = "M" -> "m" [] c = "D" -> "d" [] OTHER -> c
ToLower(s) == ToSeq([i \in 1..Len(s) |-> toLowerByte(s[i])])

\* filepath.Ext: the suffix of the last name from its last dot on.
Ext(path) ==
    LET name == path[Len(path)]
        dot  == LastIndex(name, <<".">>)
    IN  IF dot = -1 THEN <<>> ELSE slice(name, dot, Len(name))

SupportedExtensions ==
    {<<".", "m", "d">>, <<".", "t", "x", "t">>, <<".", "g", "o">>, <<".", "p", "y">>,
     <<".", "j", "s">>, <<".", "t", "s">>, <<".", "r", "s">>, <<".", "c">>,
     <<".", "c", "p", "p">>, <<".", "h">>, <<".", "j", "s", "o", "n">>,
     <<".", "y", "a", "m", "l">>, <<".", "y", "m", "l">>, <<".", "t", "o", "m", "l">>,
     <<".", "k", "d", "l">>, <<".", "c", "o", "n", "f">>}

\* chunker.IsSupportedFile of a file of text (isBinary finds no null byte).
IsSupportedFile(path) == ToLower(Ext(path)) \in SupportedExtensions

\* The names os.ReadDir(dir) lists in the tree, and whether one is a directory.
entryNames(tree, dir) ==
    {p[Len(dir) + 1] : p \in {q \in tree : Len(q) > Len(dir) /\ SubSeq(q, 1, Len(dir)) = dir}}
IsDir(tree, full) ==
    \E q \in tree : Len(q) > Len(full) /\ SubSeq(q, 1, Len(full)) = full

\* walkDir(dir, fn), lines 434-457, from the i-th entry of dir on: the paths
\* fn is called with, in the order of the calls.
RECURSIVE walkDirFrom(_, _, _)
walkDirFrom(tree, dir, i) ==
    IF i > Len(nameOrder) THEN <<>>
    ELSE LET name == nameOrder[i]
             full == dir \o <<name>>
             rest == walkDirFrom(tree, dir, i + 1)
         IN  IF name \notin entryNames(tree, dir) THEN rest
             ELSE IF HasPrefixDot(name) THEN rest
             ELSE IF IsDir(tree, full) THEN walkDirFrom(tree, full, 1) \o rest
             ELSE <<full>> \o rest

\* The closure of lines 405-410 on the paths walkDir hands it.
RECURSIVE collect(_)
collect(seen) ==
    IF seen = <<>> THEN <<>>
    ELSE IF IsSupportedFile(Head(seen)) THEN <<Head(seen)>> \o collect(Tail(seen))
    ELSE collect(Tail(seen))

(***************************************************************************)
(* SpecWalk: IndexDir by thread t1 on any tree of at most MaxFiles files,  *)
(* into the index Open makes on an empty directory.  The paths handed to   *)
(* AddFileCtx are the strings filepath.Join makes of the names.            *)
(***************************************************************************)
WalkThread == "t1"

\* The string of a name's bytes.
RECURSIVE nameString(_)
nameString(name) == IF name = <<>> THEN "" ELSE Head(name) \o nameString(Tail(name))

\* filepath.Join of the names of a path below the root.
RECURSIVE pathString(_)
pathString(p) ==
    IF Len(p) = 1 THEN nameString(p[1])
    ELSE nameString(p[1]) \o "/" \o pathString(Tail(p))

\* The tree whose files carry the modification times of mt.
treeOf(mt) == {p \in TreeFiles : pathString(p) \in DOMAIN mt}

InitWalk ==
    /\ graph = NoGraph
    /\ rngStream = zeroTail
    /\ gfile = NoFile
    /\ loaded = NotLoaded
    /\ hnswFile = NoFile
    /\ metaFile = NoMeta
    /\ \E o \in {Open(NoFile, NoMeta)} :
           /\ openErr = o.err
           /\ idxGraph = o.graph
           /\ chunks = o.chunks
    /\ fileCache = [p \in {} |-> [in |-> FALSE, mtime |-> 0]]
    /\ dirty = FALSE
    /\ mu = NoLock
    /\ \E tree \in Trees : mtime = [s \in {pathString(p) : p \in tree} |-> 1]
    /\ thr = [t \in Threads |->
                IF t = WalkThread THEN [Idle EXCEPT !.op = "IndexDir", !.pc = "walk"]
                ELSE Idle]
    /\ budget = 0
    /\ epoch = 0

\* The first pass, lines 403-415.
WalkCollect(t) ==
    /\ thr[t].op = "IndexDir"
    /\ thr[t].pc = "walk"
    /\ LET seen  == collect(walkDirFrom(treeOf(mtime), <<>>, 1))
           paths == ToSeq([i \in 1..Len(seen) |-> pathString(seen[i])])
       IN  thr' = [thr EXCEPT ![t].pc = "next", ![t].todo = paths, ![t].total = Len(paths)]
    /\ UNCHANGED <<gvars, rngStream, idxGraph, chunks, fileCache, dirty, mu,
                   hnswFile, metaFile, mtime, budget, openErr, epoch>>

\* The second pass, lines 416-429: AddFileCtx on each collected path, the
\* context being cancelled at any point.
NextWalk ==
    \E t \in {WalkThread} :
        \/ WalkCollect(t)
        \/ Cancel(t)
        \/ IndexDirNext(t)
        \/ AddFileCtxStat(t)
        \/ AddFileCtxCache(t)
        \/ AddFileCtxChunk(t)
        \/ AddFileCtxEmbed(t)
        \/ AddFileCtxLock(t)
        \/ AddFileCtxAppend(t)
        \/ AddFileCtxInsert(t)
        \/ AddFileCtxCommit(t)

SpecWalk == InitWalk /\ [][NextWalk]_vars

(***************************************************************************)
(* SpecLife: one process from Open to Close.  Thread t1 is the goroutine   *)
(* that opens the index, adds files and closes it; the record of t2 stands *)
(* for the embedder of embed.New: not yet made, live, or closed.           *)
(***************************************************************************)
LifeThread == "t1"
EmbedderRecord == "t2"

\* The index directory as an earlier process left it: empty, after a flush
\* whose write of meta.json failed, and after a flush whose Save failed at
\* its first write.
LifeDirs ==
    {[hnsw |-> NoFile, meta |-> NoMeta],
     [hnsw |-> File(Save(New(DefaultM, DefaultEfConstruction, DefaultEfSearch))),
      meta |-> [exists |-> TRUE, ok |-> FALSE, chunks |-> <<>>]],
     [hnsw |-> File(<<>>), meta |-> NoMeta]}

InitLife ==
    /\ graph = NoGraph
    /\ gfile = NoFile
    /\ loaded = NotLoaded
    /\ rngStream = zeroTail
    /\ \E d \in LifeDirs : hnswFile = d.hnsw /\ metaFile = d.meta
    /\ openErr = "none"
    /\ idxGraph = NoGraph
    /\ chunks = <<>>
    /\ fileCache = NoCache
    /\ dirty = FALSE
    /\ mu = NoLock
    /\ mtime = [p \in Paths |-> 1]
    /\ thr = [t \in Threads |->
                IF t = EmbedderRecord THEN [Idle EXCEPT !.op = "Embedder", !.pc = "unopened"]
                ELSE Idle]
    /\ budget = MaxOps
    /\ epoch = 0

\* Open, lines 76-114: embed.New fails and nothing is acquired, or it
\* yields the embedder e and the rest of Open runs; none of the returns
\* calls e.Close().
LifeOpen ==
    /\ openErr = "none"
    /\ thr[EmbedderRecord].pc = "unopened"
    /\ \E newOk \in BOOLEAN, o \in {Open(hnswFile, metaFile)} :
          IF newOk
          THEN /\ openErr' = o.err
               /\ idxGraph' = o.graph
               /\ chunks' = o.chunks
               /\ fileCache' = o.fileCache
               /\ thr' = [thr EXCEPT ![EmbedderRecord].pc = "live",
                                     ![LifeThread].op = "Open",
                                     ![LifeThread].result = IF o.err = "" THEN "ok" ELSE o.err]
          ELSE /\ openErr' = "embedder"
               /\ thr' = [thr EXCEPT ![EmbedderRecord].pc = "none",
                                     ![LifeThread].op = "Open",
                                     ![LifeThread].result = "embedder"]
               /\ UNCHANGED <<idxGraph, chunks, fileCache>>
    /\ UNCHANGED <<gvars, rngStream, dirty, mu, hnswFile, metaFile, mtime, budget, epoch>>

\* Close, line 118: idx.Flush() is called.
LifeClose ==
    /\ openErr = ""
    /\ thr[LifeThread].pc = "idle"
    /\ thr[LifeThread].op # "Flush"
    /\ thr' = [thr EXCEPT ![LifeThread] = [Idle EXCEPT !.op = "Flush", !.pc = "dirty"]]
    /\ UNCHANGED <<gvars, rngStream, idxGraph, chunks, fileCache, dirty, mu,
                   hnswFile, metaFile, mtime, budget, openErr, epoch>>

\* Close, lines 118-122: the error of Flush is returned, or the embedder is
\* closed and nil returned.
LifeCloseReturn ==
    /\ openErr = ""
    /\ thr[LifeThread].op = "Flush"
    /\ thr[LifeThread].pc = "idle"
    /\ openErr' = "none"
    /\ thr' = [thr EXCEPT ![LifeThread].op = "Close",
                          ![EmbedderRecord].pc =
                              IF thr[LifeThread].result = "ok" THEN "closed" ELSE @]
    /\ UNCHANGED <<gvars, rngStream, idxGraph, chunks, fileCache, dirty, mu,
                   hnswFile, metaFile, mtime, budget, epoch>>

NextLife ==
    \/ LifeOpen
    \/ LifeClose
    \/ LifeCloseReturn
    \/ \E t \in {LifeThread} :
          \/ \E path \in Paths : StartAddFileCtx(t, path)
          \/ AddFileCtxStat(t)
          \/ AddFileCtxCache(t)
          \/ AddFileCtxChunk(t)
          \/ AddFileCtxEmbed(t)
          \/ AddFileCtxLock(t)
          \/ AddFileCtxAppend(t)
          \/ AddFileCtxInsert(t)
          \/ AddFileCtxCommit(t)
          \/ FlushDirty(t)
          \/ FlushLock(t)
          \/ FlushCreate(t)
          \/ FlushSave(t)
          \/ FlushMeta(t)

SpecLife == InitLife /\ [][NextLife]_vars

(***************************************************************************)
(* cmd/sift/main.go, the command `sift rebuild <dir>...`: thread t1 is the *)
(* command's goroutine, which calls RebuildFromDir for each argument in    *)
(* turn, then Flush and the deferred Close.  The record of t2 holds the    *)
(* command line: results the arguments, todo those not yet rebuilt, and    *)
(* failed the paths whose Embed failed in the calls that have returned.    *)
(***************************************************************************)

MaxArgs == 2        \* directories on the command line

\* Two directories, each with one supported file.
RebuildDirs == {"d1", "d2"}
dirWalk(dir) == IF dir = "d1" THEN <<"a.md">> ELSE <<"b.md">>

\* The command lines: one directory or more, each at most once.
RebuildArgs ==
    {args \in UNION {[1..n -> RebuildDirs] : n \in 1..MaxArgs} :
        \A i, j \in 1..Len(args) : i # j => args[i] # args[j]}

\* openIndex on an empty .sift directory, main.go:341-345.
InitRebuild ==
    /\ graph = NoGraph
    /\ gfile = NoFile
    /\ loaded = NotLoaded
    /\ rngStream \in IdxStreams
    /\ hnswFile = NoFile
    /\ metaFile = NoMeta
    /\ \E o \in {Open(NoFile, NoMeta)} :
           /\ openErr = o.err
           /\ idxGraph = o.graph
           /\ chunks = o.chunks
           /\ fileCache = o.fileCache
    /\ dirty = FALSE
    /\ mu = NoLock
    /\ mtime = [p \in Paths |-> 1]
    /\ \E args \in RebuildArgs :
           /\ thr = [t \in Threads |->
                       IF t = "t2"
                       THEN [Idle EXCEPT !.op = "rebuild", !.results = args, !.todo = args]
                       ELSE Idle]
           /\ budget = Len(args) + 2
    /\ epoch = 0

\* One round of `for _, dir := range args`, main.go:347-355:
\* idx.RebuildFromDir(ctx, dir).
CmdRebuildFromDir ==
    /\ thr["t2"].op = "rebuild" /\ thr["t2"].todo # <<>>
    /\ thr["t1"].op \in {"none", "RebuildFromDir"}
    /\ openErr = "" /\ thr["t1"].pc = "idle" /\ budget > 0
    /\ thr' = [thr EXCEPT !["t1"] = [Idle EXCEPT !.op = "RebuildFromDir", !.pc = "wipe",
                                                 !.root = dirWalk(Head(thr["t2"].todo))],
                          !["t2"] = [@ EXCEPT !.todo = Tail(@),
                                              !.failed = @ \cup thr["t1"].failed]]
    /\ budget' = budget - 1
    /\ UNCHANGED <<gvars, rngStream, idxGraph, chunks, fileCache, dirty, mu,
                   hnswFile, metaFile, mtime, openErr, epoch>>

\* The loop is over: idx.Flush(), main.go:356.
CmdRebuildFlush ==
    /\ thr["t2"].op = "rebuild" /\ thr["t2"].todo = <<>>
    /\ thr["t1"].op = "RebuildFromDir"
    /\ openErr = "" /\ thr["t1"].pc = "idle" /\ budget > 0
    /\ thr' = [thr EXCEPT !["t1"] = [Idle EXCEPT !.op = "Flush", !.pc = "dirty"],
                          !["t2"] = [@ EXCEPT !.failed = @ \cup thr["t1"].failed]]
    /\ budget' = budget - 1
    /\ UNCHANGED <<gvars, rngStream, idxGraph, chunks, fileCache, dirty, mu,
                   hnswFile, metaFile, mtime, openErr, epoch>>

NextRebuild ==
    \/ CmdRebuildFromDir
    \/ RebuildFromDirWipe("t1")
    \/ CmdRebuildFlush
    \/ CmdClose
    \/ CmdReturn
    \/ IndexDirNext("t1")
    \/ AddFileCtxStat("t1")
    \/ AddFileCtxCache("t1")
    \/ AddFileCtxChunk("t1")
    \/ AddFileCtxEmbed("t1")
    \/ AddFileCtxLock("t1")
    \/ AddFileCtxAppend("t1")
    \/ AddFileCtxInsert("t1")
    \/ AddFileCtxCommit("t1")
    \/ FlushDirty("t1")
    \/ FlushLock("t1")
    \/ FlushCreate("t1")
    \/ FlushSave("t1")
    \/ FlushMeta("t1")

SpecRebuild == InitRebuild /\ [][NextRebuild]_vars

(***************************************************************************)
(* Properties of the graph.                                                *)
(***************************************************************************)
NodeIds(g) == 0..(Len(g.nodes) - 1)
LayersOf(g, n) == 0..(Len(g.nodes[n + 1].neighbors) - 1)
Elems(s) == {s[i] : i \in 1..Len(s)}
NeighborSet(g, n, L) ==
    IF n \in NodeIds(g) /\ L \in LayersOf(g, n)
    THEN Elems(g.nodes[n + 1].neighbors[L + 1]) ELSE {}
Capacity(g, L) == IF L = 0 THEN 2 * g.m ELSE g.m

\* C1: after any completed sequence of inserts the neighbour relation is
\* symmetric on every layer: every b in neighbors(n, L) has n in
\* neighbors(b, L), also after an insert that pruned a neighbour list.
SymmetricNeighbours ==
    \A n \in NodeIds(graph) : \A L \in LayersOf(graph, n) :
        \A b \in NeighborSet(graph, n, L) : n \in NeighborSet(graph, b, L)

\* C2: after any completed sequence of inserts every neighbour list at a
\* layer L > 0 has at most m entries and every list at layer 0 at most 2*m.
CapacityBound ==
    \A n \in NodeIds(graph) : \A L \in LayersOf(graph, n) :
        Len(graph.nodes[n + 1].neighbors[L + 1]) <= Capacity(graph, L)

\* C2 witness: a list that is full and from which pruneNeighbours has
\* dropped a node b that still lists n, and a layer-0 list longer than m.
CapacityWitness ==
    /\ \E n \in NodeIds(graph) : \E L \in LayersOf(graph, n) :
          /\ Len(graph.nodes[n + 1].neighbors[L + 1]) = Capacity(graph, L)
          /\ \E b \in NodeIds(graph) :
                n \in NeighborSet(graph, b, L) /\ b \notin NeighborSet(graph, n, L)
    /\ \E n \in NodeIds(graph) : Len(graph.nodes[n + 1].neighbors[1]) > graph.m

\* The graph fits the fields of the file format: u16 parameters, vector
\* lengths and neighbour counts, u8 layer counts.
FitsFormat(g) ==
    /\ g.m < 65536 /\ g.efConstruction < 65536 /\ g.efSearch < 65536
    /\ g.maxLayer < 256
    /\ \A i \in 1..Len(g.nodes) :
          /\ Len(g.nodes[i].vec) < 65536
          /\ Len(g.nodes[i].neighbors) < 256
          /\ \A l \in 1..Len(g.nodes[i].neighbors) :
                Len(g.nodes[i].neighbors[l]) < 65536

\* The graph Load returned has the length, entry point, max layer,
\* parameters, vectors and neighbour lists of g, and answers every search
\* as g does.
SameGraph(g, l) ==
    /\ l.err = ""
    /\ Len(l.g.nodes) = Len(g.nodes)
    /\ l.g.entryPoint = g.entryPoint
    /\ l.g.maxLayer = g.maxLayer
    /\ l.g.m = g.m
    /\ l.g.efConstruction = g.efConstruction
    /\ l.g.efSearch = g.efSearch
    /\ l.g.nodes = g.nodes
    /\ \A q \in Vecs : \A k \in 0..MaxK : Search(l.g, q, k) = Search(g, q, k)

\* C9 as stated: for any graph built by a sequence of inserts, Load(Save(g))
\* has the same length, entry point, max layer, parameters and neighbour
\* lists, and answers every search with the same identifiers in the same order.
RoundTripAnyGraph == loaded.done => SameGraph(graph, loaded)

\* C9 amended: the round trip returns the same graph whenever the graph's
\* parameters, vector lengths and list lengths fit the fields of the format.
RoundTripFitting == (loaded.done /\ FitsFormat(graph)) => SameGraph(graph, loaded)

\* C9 witness: a graph of several layers with a pruned list was saved and loaded.
RoundTripWitness ==
    /\ loaded.done /\ FitsFormat(graph)
    /\ Len(graph.nodes) = MaxSaved /\ graph.maxLayer >= 1
    /\ \E n \in NodeIds(graph) : Len(graph.nodes[n + 1].neighbors[1]) >= 2

\* The file's magic or version field differs from what Save writes, or the
\* file ends before the end of that field.
BadHeader(bytes) ==
    \/ Len(bytes) < 4
    \/ SubSeq(bytes, 1, 4) # magic
    \/ Len(bytes) < 6
    \/ bytes[5] + 256 * bytes[6] # formatVersion

\* C11: Load returns an error and no graph for every file whose first four
\* bytes differ from S H N W, files shorter than four bytes included, and
\* for every file whose version field is not 1.
HeaderRejection ==
    (loaded.done /\ BadHeader(gfile.bytes)) =>
        (loaded.err # "" /\ loaded.g = NoGraph)

\* C11 witness: Load has rejected a file of a built graph that is whole but
\* for a version field other than 1.
HeaderRejectionWitness ==
    /\ loaded.done /\ loaded.err = "version"
    /\ Len(graph.nodes) > 0
    /\ Len(gfile.bytes) = Len(Save(graph))
    /\ SubSeq(gfile.bytes, 1, 4) = magic
    /\ gfile.bytes[5] + 256 * gfile.bytes[6] # formatVersion

\* C13: for any sequence V of unit vectors inserted into an empty graph,
\* Search(V[0], 1) returns exactly one result, whose id is 0 and whose
\* score is at least 0.99 (scores are in 1/25).
SelfRetrieval ==
    Len(graph.nodes) > 0 =>
        LET results == Search(graph, graph.nodes[1].vec, 1)
        IN  /\ Len(results) = 1
            /\ results[1].id = 0
            /\ 100 * results[1].dist >= 99 * 25

\* The top layer of node n: len(neighbors) - 1.
TopLayer(g, n) == Len(g.nodes[n + 1].neighbors) - 1

\* C23: after any completed sequence of inserts on a non-empty graph the
\* entry point is a node of the graph whose top layer is maxLayer, and
\* maxLayer is the largest top layer of all nodes.
EntryPointOnTop ==
    Len(graph.nodes) > 0 =>
        /\ graph.entryPoint \in NodeIds(graph)
        /\ TopLayer(graph, graph.entryPoint) = graph.maxLayer
        /\ \A n \in NodeIds(graph) : TopLayer(graph, n) <= graph.maxLayer

\* C23 witness: an insert has moved the entry point from node 0 to a later
\* node of a higher level, and nodes were inserted after that one.
EntryPointWitness ==
    /\ graph.entryPoint > 0
    /\ graph.entryPoint < Len(graph.nodes) - 1
    /\ TopLayer(graph, 0) < graph.maxLayer

\* What C24 asks of the results of one search.
WellFormedResults(g, query, k, results) ==
    /\ Len(results) <= k
    /\ Len(g.nodes) = 0 => results = <<>>
    /\ \A i \in 1..Len(results) :
          /\ results[i].id \in NodeIds(g)
          /\ results[i].dist = sim(query, g.nodes[results[i].id + 1].vec)
    /\ \A i, j \in 1..Len(results) :
          /\ i # j => results[i].id # results[j].id
          /\ i < j => results[i].dist >= results[j].dist

\* C24: for any graph, query and k >= 0, Search returns at most k pairs of
\* pairwise distinct valid node ids, each with the similarity of the query
\* to that node, in non-increasing order of score, and nothing on an empty
\* graph.
SearchResultsWellFormed ==
    \A query \in Vecs, k \in 0..MaxK :
        WellFormedResults(graph, query, k, Search(graph, query, k))

\* C24 witness: a search of a graph of more than k nodes returns k = MaxK
\* results of different scores.
SearchResultsWitness ==
    /\ Len(graph.nodes) > MaxK + 1
    /\ \E query \in Vecs :
          LET results == Search(graph, query, MaxK)
          IN  Len(results) = MaxK /\ results[1].dist > results[MaxK].dist

\* Both graphs were fed the same insertion sequence.
SameSequence ==
    /\ Len(graph.nodes) = Len(idxGraph.nodes)
    /\ \A i \in 1..Len(graph.nodes) : graph.nodes[i].vec = idxGraph.nodes[i].vec

\* C27: two fresh graphs of the same parameters that were fed the same
\* insertion sequence are identical (the levels of the nodes, the
\* neighbour lists in their order, entry point and maxLayer) and answer
\* every search with the same results.
Deterministic ==
    SameSequence =>
        /\ graph.nodes = idxGraph.nodes
        /\ graph.entryPoint = idxGraph.entryPoint
        /\ graph.maxLayer = idxGraph.maxLayer
        /\ \A query \in Vecs, k \in 0..MaxK :
              Search(graph, query, k) = Search(idxGraph, query, k)

\* C27 witness: both graphs have been fed the same MaxTwin vectors, the
\* last level drawn past the known values of the stream, and hold nodes on
\* several layers, linked.
DeterministicWitness ==
    /\ SameSequence
    /\ Len(graph.nodes) = MaxTwin
    /\ Len(rngStream) > Len(seed42)
    /\ graph.maxLayer > 0
    /\ \E n \in NodeIds(graph) : Len(graph.nodes[n + 1].neighbors[1]) > 1

\* C20: all vectors of a graph have the same dimension, an insert of a
\* vector of another dimension failing with DimensionMismatch and leaving
\* the graph as it was.
SameDimension ==
    \A i, j \in 1..Len(graph.nodes) :
        Len(graph.nodes[i].vec) = Len(graph.nodes[j].vec)

\* W is sorted descending by similarity, ties by lower id first.
RECURSIVE SortedTiesByLowerId(_, _)
SortedTiesByLowerId(W, i) ==
    IF i >= Len(W) THEN TRUE
    ELSE /\ \/ W[i].dist > W[i + 1].dist
            \/ W[i].dist = W[i + 1].dist /\ W[i].id < W[i + 1].id
         /\ SortedTiesByLowerId(W, i + 1)

\* C36: what searchLayer returns at layer 0, from the entry Search descends
\* to and with Search's beam width, is sorted descending by similarity with
\* ties broken by lower id.
SearchLayerTieBreak ==
    Len(graph.nodes) > 0 =>
        \A query \in Vecs :
            LET ep == descend(graph, query, graph.entryPoint, graph.maxLayer, 0)
            IN  SortedTiesByLowerId(
                    searchLayer(graph, query, ep, graph.efSearch, 0), 1)

\* Every index Search and Insert follow in g stays inside g.nodes, and the
\* entry node has the layers maxLayer says it has.
WellFormedGraph(g) ==
    /\ Len(g.nodes) > 0 =>
          /\ g.entryPoint < Len(g.nodes)
          /\ g.maxLayer + 1 = Len(g.nodes[g.entryPoint + 1].neighbors)
    /\ \A i \in 1..Len(g.nodes) :
          \A l \in 1..Len(g.nodes[i].neighbors) :
             \A j \in 1..Len(g.nodes[i].neighbors[l]) :
                g.nodes[i].neighbors[l][j] < Len(g.nodes)

\* C40: every graph a successful Load returns is well formed: its entry
\* point and every neighbour id are below the node count, and maxLayer is
\* the top layer of the entry node.
LoadedWellFormed ==
    (loaded.done /\ loaded.err = "") => WellFormedGraph(loaded.g)

(***************************************************************************)
(* Properties of the index.                                                *)
(***************************************************************************)

\* C3: in an index opened on an empty directory, whenever no thread holds
\* the index lock exclusively, there are as many metadata records as graph
\* nodes and record i describes the chunk whose vector is node i, under any
\* interleaving of add_file, index_dir, rebuild_from_dir, flush and search.
NodeIsMetadataPosition ==
    mu.writer = "" =>
        /\ Len(chunks) = Len(idxGraph.nodes)
        /\ \A i \in 1..Len(chunks) :
              idxGraph.nodes[i].vec = EmbedText(chunks[i].Text)

\* C3 witness: a rebuild has finished while another call added chunks of
\* its own, so the index holds more chunks than one walk of the tree adds.
NodeIsMetadataWitness ==
    /\ mu.writer = ""
    /\ \E t \in Threads : thr[t].op = "RebuildFromDir" /\ thr[t].result = "Done"
    /\ Len(chunks) > NumChunks("a.md") + NumChunks("b.md")

\* C4: an AddFileCtx call (of add_file or of index_dir) that finds the file
\* in the cache at the mtime the file has returns Skipped and has added no
\* graph node and no metadata record, and written neither cache nor flag.
SkipCacheIdempotent ==
    \A t \in Threads :
        thr[t].known =>
            /\ thr[t].ret = "Skipped"
            /\ thr[t].appended = 0 /\ ~thr[t].cached /\ ~thr[t].marked

\* C4 witness: a second pass over an indexed file has returned Skipped.
SkipCacheWitness ==
    \E t \in Threads :
        /\ thr[t].known /\ thr[t].ret = "Skipped" /\ thr[t].pc = "idle"
        /\ \E i \in 1..Len(chunks) : chunks[i].Path = thr[t].path

\* C5: an AddFileCtx call whose token had fired when a batch was about to
\* start returns Cancelled, and none of the file's chunks was appended to
\* the graph or the metadata, no cache entry written and the dirty flag not
\* set by the call, however many batches it had embedded.
CancelledAddsNothing ==
    \A t \in Threads :
        thr[t].fired =>
            /\ thr[t].ret = "Cancelled"
            /\ thr[t].appended = 0 /\ ~thr[t].cached /\ ~thr[t].marked

\* C5 witness: a call was cancelled after it had embedded a whole batch.
CancelledWitness ==
    \E t \in Threads :
        /\ thr[t].fired /\ thr[t].ret = "Cancelled"
        /\ thr[t].embedded = batchSize

\* C6: while a search holds the lock, the graph and the metadata are the
\* ones it found when it took the lock, and no AddFileCtx is between its
\* first append and its return: each file is in them whole or not at all.
SearchSeesWholeFiles ==
    \A t \in Threads :
        thr[t].pc \in {"fetch", "rerank"} =>
            /\ idxGraph = thr[t].snap.graph
            /\ chunks = thr[t].snap.chunks
            /\ \A u \in Threads : thr[u].pc \notin {"append", "insert", "commit"}

\* C6 witness: a search has hits in hand while an AddFileCtx that embedded
\* its file waits for the lock.
SearchWitness ==
    \E t, u \in Threads :
        /\ thr[t].pc = "rerank" /\ Len(thr[t].hits) > 0
        /\ thr[u].pc = "lock"

\* The directory holds no index, or a whole one: a graph file that loads
\* and parseable metadata with as many records as the graph has nodes.
DiskWhole ==
    \/ ~hnswFile.exists /\ ~metaFile.exists
    \/ /\ hnswFile.exists /\ metaFile.exists /\ metaFile.ok
       /\ Load(hnswFile.bytes).err = ""
       /\ Len(Load(hnswFile.bytes).g.nodes) = Len(metaFile.chunks)

\* C7: at whatever point of a flush the process stops or the flush fails,
\* the persisted pair is entirely the state before the flush or entirely
\* the new one: never a new graph file next to old metadata, never a
\* truncated file.
FlushAtomic == DiskWhole

\* C8: a flush that found the dirty flag set and succeeds has written both
\* files from one snapshot (persisted node count = persisted record count
\* = in-memory count) and cleared the flag; a flush that finds the flag
\* clear returns having changed nothing.
FlushPostcondition ==
    [][\A t \in Threads :
          /\ (thr[t].pc = "meta" /\ thr'[t].pc = "idle" /\ thr'[t].result = "ok") =>
                /\ ~dirty'
                /\ Load(hnswFile'.bytes).err = ""
                /\ Len(Load(hnswFile'.bytes).g.nodes) = Len(metaFile'.chunks)
                /\ Len(metaFile'.chunks) = Len(chunks')
                /\ Len(idxGraph'.nodes) = Len(chunks')
          /\ (thr[t].pc = "dirty" /\ ~dirty /\ thr'[t].pc = "idle" /\ thr'[t].result = "ok") =>
                UNCHANGED <<idxGraph, chunks, fileCache, dirty, hnswFile, metaFile>>
      ]_vars

\* C10: Open never returns an index whose metadata length differs from its
\* graph length: when the two files disagree it reports the corruption.
OpenRejectsMismatch ==
    (epoch > 0 /\ budget = MaxOps /\ openErr = "") =>
        Len(chunks) = Len(idxGraph.nodes)

\* A call of Search on thread t has returned its results.
SearchReturned(t) == thr[t].op = "Search" /\ thr[t].result = "Results"

\* C12: Search returns at most k results, no two of the same path, and the
\* result of a path is the first hit of that path in the re-ranked order.
DedupOnePerPath ==
    \A t \in Threads : SearchReturned(t) =>
        LET r == thr[t] IN
        /\ Len(r.results) <= r.k
        /\ \A i, j \in 1..Len(r.results) :
              r.results[i].Meta.Path = r.results[j].Meta.Path => i = j
        /\ \A i \in 1..Len(r.results) : \E n \in 1..Len(r.reranked) :
              /\ r.reranked[n].meta = r.results[i].Meta
              /\ r.reranked[n].score = r.results[i].Score
              /\ \A m \in 1..(n - 1) :
                    r.reranked[m].meta.Path # r.results[i].Meta.Path

\* C12 witness: a search for two results walked hits with several chunks
\* of one path, a later one of them scored above the first of another path,
\* and returned one result for each of two paths.
DedupWitness ==
    \E t \in Threads :
        /\ SearchReturned(t) /\ thr[t].k = 2 /\ Len(thr[t].results) = 2
        /\ \E m, n \in 1..Len(thr[t].reranked) :
              /\ m < n
              /\ thr[t].reranked[m].meta.Path = thr[t].reranked[1].meta.Path
              /\ m > 1
              /\ thr[t].reranked[n].meta.Path # thr[t].reranked[1].meta.Path

\* The paths and chunk indexes of the records a walk over the paths ps
\* appends, in order.
RECURSIVE RecordsOf(_)
RecordsOf(ps) ==
    IF ps = <<>> THEN <<>>
    ELSE ToSeq([i \in 1..NumChunks(Head(ps)) |-> [Path |-> Head(ps), ChunkIndex |-> i - 1]])
         \o RecordsOf(Tail(ps))

RECURSIVE Without(_, _)
Without(ps, skipped) ==
    IF ps = <<>> THEN <<>>
    ELSE (IF Head(ps) \in skipped THEN <<>> ELSE <<Head(ps)>>) \o Without(Tail(ps), skipped)

\* The metadata cs, the graph g and the file cache hold exactly the chunks
\* of the files ps: one record and one node per chunk, in the order of the
\* walk, each record with the text of its chunk and the mtime the cache
\* holds for its file, and no other record, node or cache entry.
HoldsExactly(ps, cs, g, cache) ==
    /\ ToSeq([i \in 1..Len(cs) |-> [Path |-> cs[i].Path, ChunkIndex |-> cs[i].ChunkIndex]])
          = RecordsOf(ps)
    /\ Len(g.nodes) = Len(cs)
    /\ \A i \in 1..Len(cs) :
          /\ cs[i].Text.Path = cs[i].Path /\ cs[i].Text.Index = cs[i].ChunkIndex
          /\ g.nodes[i].vec = EmbedText(cs[i].Text)
          /\ cache[cs[i].Path].mtime = cs[i].Mtime
    /\ \A p \in DOMAIN cache \cup Elems(ps) :
          (p \in DOMAIN cache /\ cache[p].in) <=> p \in Elems(ps)

\* The step is the return without error of a RebuildFromDir on thread t
\* during which no other thread wrote to the index.
RebuildReturns(t) ==
    /\ thr[t].op = "RebuildFromDir" /\ thr[t].pc # "idle"
    /\ thr'[t].pc = "idle" /\ thr'[t].result = "Done" /\ ~thr'[t].others

\* C14 as stated: with no concurrent writer, after rebuild_from_dir returns
\* without error the metadata, the graph and the file cache hold exactly
\* the chunks of the eligible files under root, and nothing older.
RebuildHoldsEligible ==
    [][\A t \in Threads : RebuildReturns(t) =>
          HoldsExactly(thr'[t].root, chunks', idxGraph', fileCache')]_vars

\* The files AddFileCtx returns on without an error and without adding
\* anything: those os.Stat fails on, those above the size limit, those
\* ChunkFile fails on or finds no chunk in, and those whose Embed failed
\* during the call on thread t.
NotAdded(failed) == Missing \cup TooLarge \cup Unreadable \cup Blank \cup failed

\* C14 amended: they hold exactly the chunks of the eligible files that
\* AddFileCtx added, and nothing older.
RebuildHoldsAdded ==
    [][\A t \in Threads : RebuildReturns(t) =>
          HoldsExactly(Without(thr'[t].root, NotAdded(thr'[t].failed)),
                       chunks', idxGraph', fileCache')]_vars

\* C14 witness: a rebuild over the root of files of every kind that
\* discarded records has returned without error, one good file skipped
\* for an embed error and the other indexed.
RebuildWitness ==
    \E t \in Threads :
        /\ thr[t].op = "RebuildFromDir" /\ thr[t].pc = "idle"
        /\ thr[t].result = "Done" /\ ~thr[t].others
        /\ thr[t].root = mixedDir
        /\ thr[t].wiped > 0
        /\ thr[t].failed = {"a.md"}
        /\ Len(chunks) = NumChunks("b.md")
        /\ HoldsExactly(<<"b.md">>, chunks, idxGraph, fileCache)

\* C15: a search that runs concurrently with a rebuild observes the
\* complete index from before the rebuild or the complete rebuilt index.
\* A search holding the read lock while the rebuild is past its wipe took
\* the lock after the wipe: what it observes is the rebuilt index with
\* every file the rebuild adds, or else has at least the size of the
\* index that was wiped.
RebuildAtomic ==
    \A t, u \in Threads :
        ( /\ thr[t].op = "Search" /\ thr[t].pc \in {"fetch", "rerank"}
          /\ thr[u].op = "RebuildFromDir" /\ thr[u].pc \notin {"idle", "wipe"}
          /\ ~thr[u].cancelled )
        => \/ Len(thr[t].snap.chunks) = thr[u].wiped
           \/ /\ thr[u].pc = "next" /\ thr[u].todo = <<>>
              /\ HoldsExactly(Without(thr[u].root, thr[u].failed),
                              thr[t].snap.chunks, thr[t].snap.graph, fileCache)

\* A call of IndexDirWithProgress on thread t: IndexDir, or the walk of
\* RebuildFromDir.
IsWalk(t) == thr[t].op \in {"IndexDir", "RebuildFromDir"}

\* Once the token has fired the walk starts no further AddFileCtx.
NoFileAfterCancel ==
    \A t \in Threads : (IsWalk(t) /\ thr[t].cancelled) => thr[t].started = thr[t].firedAt

\* C16 as stated: index_dir invoked on any root with an already-fired token
\* fails with Cancelled after processing at most one file, and once the
\* token has fired index_dir starts no further add_file.
CancelledWalkAnyRoot ==
    /\ NoFileAfterCancel
    /\ \A t \in Threads :
          (IsWalk(t) /\ thr[t].pc = "idle" /\ thr[t].firedAt = 0) =>
              (thr[t].result = "Cancelled" /\ thr[t].started <= 1)

\* C16 amended: the call fails with Cancelled when the first pass collected
\* at least one eligible file.
CancelledWalk ==
    /\ NoFileAfterCancel
    /\ \A t \in Threads :
          (IsWalk(t) /\ thr[t].pc = "idle" /\ thr[t].firedAt = 0 /\ thr[t].total > 0) =>
              (thr[t].result = "Cancelled" /\ thr[t].started <= 1)

\* C16 witness: IndexDir over the two files returned Cancelled for a token
\* that had fired before the first file, and nothing was indexed.
CancelledWalkWitness ==
    \E t \in Threads :
        /\ thr[t].op = "IndexDir" /\ thr[t].pc = "idle" /\ thr[t].total = Len(walkDir)
        /\ thr[t].firedAt = 0 /\ thr[t].result = "Cancelled" /\ thr[t].started = 0
        /\ chunks = <<>>

\* The records of the files AddFileCtx has completed.
Completed(cs, cache) == {i \in 1..Len(cs) : cache[cs[i].Path].in}

\* The records of the completed files are in the persisted index.
CompletedPersisted ==
    \A i \in Completed(chunks, fileCache) :
        /\ metaFile.exists /\ metaFile.ok
        /\ i <= Len(metaFile.chunks) /\ metaFile.chunks[i] = chunks[i]
        /\ hnswFile.exists /\ Load(hnswFile.bytes).err = ""
        /\ i <= Len(Load(hnswFile.bytes).g.nodes)

\* The walk of the command has returned to indexDirs.
WalkReturned == thr["t1"].op = "IndexDir" /\ thr["t1"].pc = "idle" /\ ~CommandEnded

\* C17: when the walk of `sift index` is cancelled after files have been
\* completely indexed it surfaces Cancelled, and the chunks of those files
\* are flushed: they are in the persisted index on every path by which the
\* interrupted command ends, its return and the exit of its hard deadline.
InterruptedWalkFlushed ==
    /\ (WalkReturned /\ thr["t1"].cancelled /\ Completed(chunks, fileCache) # {})
          => thr["t1"].result = "Cancelled"
    /\ (CommandEnded /\ thr["t2"].cancelled) => CompletedPersisted

\* Thread t holds idx.mu, shared or exclusive.
HoldsLock(t) == t \in mu.readers \/ mu.writer = t

\* C18: the index lock is not held across a blocking external operation:
\* a thread about to read the source files of its hits (Search, lines
\* 265-292) or to call the embedder (AddFileCtx, lines 178-203) does not
\* hold the lock, so no AddFileCtx waits for the lock behind such a thread.
NoLockAcrossIO ==
    /\ \A t \in Threads : thr[t].pc \in {"rerank", "embed"} => ~HoldsLock(t)
    /\ \A t, u \in Threads :
          (thr[u].pc = "lock" /\ thr[t].pc \in {"rerank", "embed"}) => CanLock

\* C19: concurrent add_file, flush, search, stats and rebuild_from_dir
\* calls do not deadlock, and every call that was started returns, the
\* embedder and the file operations returning.
EveryCallReturns ==
    \A t \in Threads : (thr[t].pc # "idle") ~> (thr[t].pc = "idle")

\* C19 witness: a call waits for the exclusive lock while a search holds
\* the lock in shared mode.
WaitingWitness ==
    \E t, u \in Threads :
        /\ thr[u].pc \in {"lock", "flock", "wipe"} /\ ~CanLock
        /\ thr[t].op = "Search" /\ t \in mu.readers

\* An AddFileCtx call on thread t has returned to its caller.
AddFileReturned(t) ==
    thr[t].op = "AddFileCtx" /\ thr[t].pc = "idle" /\ thr[t].ret # ""

\* C21: add_file returns Skipped for a file that is unsupported, cannot be
\* stat'ed, is too large, is a skip-cache hit or whose embedding fails, and
\* Added when chunks were appended or the chunk list is empty; none of these
\* is reported as an error.
AddFileClassification ==
    \A t \in Threads :
        AddFileReturned(t) =>
            /\ thr[t].ret \in {"Unsupported", "StatError", "TooLarge", "Skipped", "EmbedError"}
                  => skippedAt(thr[t].ret) /\ errAt(thr[t].ret) = "nil"
            /\ thr[t].ret \in {"Indexed", "NoChunks"}
                  => ~skippedAt(thr[t].ret) /\ errAt(thr[t].ret) = "nil"

\* The returns of AddFileCtx for a file that fails on its own.
PerFileFailures ==
    {"Unsupported", "StatError", "TooLarge", "ChunkError", "NoChunks", "EmbedError"}

\* The step of thread t is a return of AddFileCtx.
AddFileReturns(t) ==
    /\ thr[t].pc \in {"stat", "cache", "chunk", "embed", "commit"}
    /\ thr'[t].pc \in {"idle", "next"}

\* C22: an AddFileCtx that ends because the file is unsupported, unreadable,
\* too large, without chunks or not embedded has left graph, metadata, file
\* cache and dirty flag (with last_updated) as they were and returns no
\* error; in a walk the loop goes on with the paths that remain, and a walk
\* that returns nil has called AddFileCtx for every path it collected.
PerFileFailureRecovered ==
    [][\A t \in Threads :
          /\ (AddFileReturns(t) /\ thr'[t].ret \in PerFileFailures) =>
                /\ UNCHANGED <<idxGraph, chunks, fileCache, dirty>>
                /\ thr'[t].appended = 0 /\ ~thr'[t].cached /\ ~thr'[t].marked
                /\ errAt(thr'[t].ret) = "nil"
                /\ thr[t].op = "IndexDir" =>
                      thr'[t].pc = "next" /\ thr'[t].todo = thr[t].todo
          /\ (thr'[t].op = "IndexDir" /\ thr'[t].result = "Done") =>
                thr'[t].started = thr'[t].total]_vars

\* C22 witness: a walk has returned nil after files that failed in every
\* way, the embedding of b.md among them, and holds the file that came last.
PerFileFailureWitness ==
    \E t \in Threads :
        /\ thr[t].op = "IndexDir" /\ thr[t].result = "Done"
        /\ thr[t].started = Len(mixedDir)
        /\ thr[t].failed = {"b.md"}
        /\ Len(chunks) = NumChunks("a.md")
        /\ chunks[1].Path = "a.md"

\* The position in hits of the hit for the chunk of metadata meta.
HitPos(hits, meta) ==
    CHOOSE i \in 1..Len(hits) : chunks[hits[i].id + 1] = meta

\* The step of thread t is the return of Search with its results.
SearchReturns(t) == thr[t].pc = "rerank" /\ thr'[t].pc = "idle"

\* C25: Search returns its results in non-increasing order of boosted
\* score, and of two results of equal boosted score the one the graph
\* search returned first comes first.
ResultsStable ==
    [][\A t \in Threads :
          SearchReturns(t) =>
              LET res == thr'[t].results
              IN  \A i, j \in 1..Len(res) :
                      i < j =>
                          /\ res[i].Score >= res[j].Score
                          /\ res[i].Score = res[j].Score =>
                                HitPos(thr[t].hits, res[i].Meta)
                                  < HitPos(thr[t].hits, res[j].Meta)]_vars

\* The number of the query's words of more than 2 bytes that the text of
\* the chunk contains.
MatchCount(words, meta) ==
    Cardinality({i \in 1..Len(words) :
                    /\ words[i].len > 2
                    /\ words[i].w \in TextWords([Path |-> meta.Path,
                                                 Ver |-> ModTime(meta.Path),
                                                 Index |-> meta.ChunkIndex])})

\* C26: the boosted score of a hit whose chunk bytes can be read is its
\* similarity plus 0.05 for each query word of length > 2 found in the chunk
\* text, and the score of a hit whose file cannot be read is its similarity
\* (scores in 1/100, similarities in 1/25).
HybridScore ==
    [][\A t \in Threads :
          SearchReturns(t) =>
              /\ Len(thr'[t].reranked) = Len(thr[t].hits)
              /\ \A i \in 1..Len(thr[t].hits) :
                    LET h    == thr[t].hits[i]
                        meta == chunks[h.id + 1]
                    IN  \E j \in 1..Len(thr'[t].reranked) :
                            /\ thr'[t].reranked[j].meta = meta
                            /\ thr'[t].reranked[j].score =
                                  IF CanRead(meta.Path)
                                  THEN 4 * h.dist + 5 * MatchCount(thr[t].query.words, meta)
                                  ELSE 4 * h.dist]_vars

\* C26 witness: a search for "beta of" has ranked a chunk of b.md with the
\* boost of one word and a chunk of the removed gone.md, whose text held the
\* word when it was indexed, without.
HybridScoreWitness ==
    \E t \in Threads :
        /\ thr[t].op = "Search" /\ thr[t].pc = "idle"
        /\ Len(thr[t].query.words) = 2
        /\ \E i, j \in 1..Len(thr[t].reranked) :
              /\ thr[t].reranked[i].meta.Path = "b.md"
              /\ thr[t].reranked[i].meta.ChunkIndex > 0
              /\ thr[t].reranked[i].score = 4 * RankSims[3] + 5
              /\ thr[t].reranked[j].meta.Path = "gone.md"
              /\ thr[t].reranked[j].meta.ChunkIndex > 0
              /\ thr[t].reranked[j].score = 4 * RankSims[1]

\* C37: the chunks of a file at one mtime are appended to the metadata at
\* most once, whatever add_file calls for the file ran concurrently: no two
\* records of idx.chunks have the same path, mtime and chunk index.
AppendedAtMostOnce ==
    \A i, j \in 1..Len(chunks) :
        (/\ chunks[i].Path = chunks[j].Path
         /\ chunks[i].Mtime = chunks[j].Mtime
         /\ chunks[i].ChunkIndex = chunks[j].ChunkIndex) => i = j

\* No call is in progress on the index.
Quiescent == \A t \in Threads : thr[t].pc = "idle"

\* C38: whenever no call is in progress and the dirty flag is false, what
\* Open would load from the index directory is the metadata and the graph
\* the index holds in memory.
DirtyFlagSound ==
    (openErr = "" /\ Quiescent /\ ~dirty) =>
        LET o == Open(hnswFile, metaFile)
        IN  /\ o.err = ""
            /\ o.chunks = chunks
            /\ o.graph.nodes = idxGraph.nodes
            /\ o.graph.entryPoint = idxGraph.entryPoint
            /\ o.graph.maxLayer = idxGraph.maxLayer

\* The records of path p in the metadata, by position.
PositionsOf(p) == {i \in 1..Len(chunks) : chunks[i].Path = p}

\* C39: whenever no call is in progress, the file cache holds a path exactly
\* when the metadata has a record of it, and holds for it the greatest
\* Mtime of its records: the cache Open derives from the metadata.
CacheFromMetadata ==
    (openErr = "" /\ Quiescent) =>
        \A p \in Paths :
            /\ fileCache[p].in <=> PositionsOf(p) # {}
            /\ fileCache[p].in =>
                   /\ \E i \in PositionsOf(p) : chunks[i].Mtime = fileCache[p].mtime
                   /\ \A i \in PositionsOf(p) : chunks[i].Mtime <= fileCache[p].mtime

(***************************************************************************)
(* Properties of the chunker.                                              *)
(***************************************************************************)

\* The offsets of the bytes of the text that are not whitespace.
Inked(text) == {i \in 0..(Len(text) - 1) : text[i + 1] \notin asciiSpace}

\* C28: when chunkBytes has returned for a text that is not all whitespace,
\* every byte of the text that is not whitespace lies in the range
\* [StartByte, EndByte) of at least one returned chunk.
ChunkCoverage ==
    \A t \in Threads :
        ChunkReturned(t) /\ Inked(thr[t].data) # {} =>
            \A i \in Inked(thr[t].data) :
                \E n \in 1..Len(thr[t].result) :
                    /\ thr[t].result[n].StartByte <= i
                    /\ i < thr[t].result[n].EndByte

\* A call has returned at least two chunks after the filter dropped a
\* window of whitespace between them.
ChunkCoverageWitness ==
    \E t \in Threads :
        /\ ChunkReturned(t)
        /\ Len(thr[t].result) >= 2
        /\ Len(thr[t].st.chunks) > Len(thr[t].result)
        /\ \E n \in 2..(Len(thr[t].st.chunks) - 1) : thr[t].st.chunks[n].Text = <<>>

\* A pass of the loop that appends a chunk and goes round again leaves the
\* cursor at least one byte further on.
CursorAdvances ==
    \A t \in Threads :
        (thr[t].op = "chunkBytes" /\ thr[t].pc = "loop" /\ thr'[t].pc = "loop") =>
            /\ Len(thr'[t].st.chunks) = Len(thr[t].st.chunks) + 1
            /\ thr'[t].st.start >= thr[t].st.start + 1

\* StartByte strictly increases along a sequence of chunks.
StartsIncrease(cs) ==
    \A n \in 1..(Len(cs) - 1) : cs[n].StartByte < cs[n + 1].StartByte

\* C29: for any text and any options with MaxBytes >= 1, OverlapBytes of
\* MaxBytes and more included, every pass of the loop that appends a chunk
\* and continues advances the cursor by at least one byte, every call of
\* chunkBytes returns, and StartByte strictly increases across the chunks
\* appended and across the chunks returned.
ChunkProgress ==
    /\ [][CursorAdvances]_vars
    /\ [](\A t \in Threads :
            thr[t].op = "chunkBytes" =>
                StartsIncrease(thr[t].st.chunks) /\ StartsIncrease(thr[t].result))
    /\ <>ChunkReturned(ChunkThread)

\* A call with an overlap of at least MaxBytes has returned three chunks or
\* more after as many passes of the loop.
ChunkProgressWitness ==
    \E t \in Threads :
        /\ ChunkReturned(t)
        /\ thr[t].opts.OverlapBytes >= thr[t].opts.MaxBytes
        /\ thr[t].passes >= 3
        /\ Len(thr[t].result) >= 3

\* C30: every chunk chunkBytes returns has 0 <= StartByte < EndByte <=
\* len(data), a window of at most MaxBytes bytes, and a text that is not
\* empty and has no whitespace at either end.
ChunkWellFormed ==
    \A t \in Threads :
        ChunkReturned(t) =>
            \A n \in 1..Len(thr[t].result) :
                LET c == thr[t].result[n]
                IN  /\ 0 <= c.StartByte
                    /\ c.StartByte < c.EndByte
                    /\ c.EndByte <= Len(thr[t].data)
                    /\ c.EndByte - c.StartByte <= thr[t].opts.MaxBytes
                    /\ c.Text # <<>>
                    /\ TrimSpace(c.Text) = c.Text

\* A call has returned several chunks, one with a window of MaxBytes bytes
\* that trimming has shortened and one that ends with the text.
ChunkWellFormedWitness ==
    \E t \in Threads :
        /\ ChunkReturned(t)
        /\ Len(thr[t].result) >= 2
        /\ \E n \in 1..Len(thr[t].result) :
              /\ thr[t].result[n].EndByte - thr[t].result[n].StartByte = thr[t].opts.MaxBytes
              /\ Len(thr[t].result[n].Text) < thr[t].opts.MaxBytes
        /\ \E n \in 1..Len(thr[t].result) : thr[t].result[n].EndByte = Len(thr[t].data)

\* C31: when chunkBytes has returned for options with OverlapBytes > 0, each
\* returned chunk after the first starts strictly before the end of the
\* returned chunk before it.
ChunksOverlap ==
    \A t \in Threads :
        ChunkReturned(t) /\ thr[t].opts.OverlapBytes > 0 =>
            \A n \in 1..(Len(thr[t].result) - 1) :
                thr[t].result[n + 1].StartByte < thr[t].result[n].EndByte

\* The last chunk of a sequence that is not empty.
LastChunk(cs) == cs[Len(cs)]

\* C32 as stated: when chunkBytes has returned at least one chunk, EndByte of
\* the last returned chunk is len(data).
LastChunkEndsAtEOF ==
    \A t \in Threads :
        ChunkReturned(t) /\ Len(thr[t].result) >= 1 =>
            LastChunk(thr[t].result).EndByte = Len(thr[t].data)

\* C32 amended: when chunkBytes has returned at least one chunk, the last
\* chunk the loop appended ends at len(data); it is the last returned chunk
\* exactly when its text is not empty, and otherwise the last returned chunk
\* ends before len(data) and every byte from its EndByte on is whitespace.
LastChunkEndsAtEOFOrBlank ==
    \A t \in Threads :
        ChunkReturned(t) /\ Len(thr[t].result) >= 1 =>
            LET final == LastChunk(thr[t].st.chunks)
                last  == LastChunk(thr[t].result)
            IN  /\ final.EndByte = Len(thr[t].data)
                /\ final.Text # <<>> => last = final
                /\ final.Text = <<>> => last.EndByte < Len(thr[t].data)
                /\ \A i \in last.EndByte..(Len(thr[t].data) - 1) :
                      thr[t].data[i + 1] \in asciiSpace

\* A call has returned two chunks or more after the filter dropped the
\* final chunk, a window of whitespace at the end of the text.
LastChunkWitness ==
    \E t \in Threads :
        /\ ChunkReturned(t)
        /\ Len(thr[t].result) >= 2
        /\ LastChunk(thr[t].st.chunks).Text = <<>>
        /\ LastChunk(thr[t].result).EndByte < Len(thr[t].data)

(***************************************************************************)
(* Properties of the directory walk.                                       *)
(***************************************************************************)

\* The files of the tree with no hidden directory above them.
OutsideHidden(tree) ==
    {p \in tree : \A i \in 1..(Len(p) - 1) : ~HasPrefixDot(p[i])}

\* The walk of IndexDir has returned, no context cancelled and no Embed
\* having failed.
TreeWalked(t) ==
    /\ thr[t].op = "IndexDir" /\ thr[t].pc = "idle" /\ thr[t].result = "Done"
    /\ ~thr[t].cancelled /\ thr[t].failed = {}

\* C33: when IndexDir has returned, the files it has indexed are exactly
\* the supported files of the tree that are in no hidden directory.
WalkEligibility ==
    \A t \in Threads :
        TreeWalked(t) =>
            {chunks[n].Path : n \in 1..Len(chunks)} =
                {pathString(p) : p \in {q \in OutsideHidden(treeOf(mtime)) : IsSupportedFile(q)}}

(***************************************************************************)
(* Properties of the embedder's lifecycle.                                 *)
(***************************************************************************)

\* C34: the embedder Open acquired is live neither after Open has failed on
\* a corrupt meta.json or hnsw.bin nor after Close has returned, with the
\* error of its flush or without.
EmbedderReleased ==
    /\ openErr \in {"corrupt meta.json", "corrupt hnsw.bin"} =>
           thr[EmbedderRecord].pc # "live"
    /\ thr[LifeThread].op = "Close" => thr[EmbedderRecord].pc = "closed"


(***************************************************************************)
(* Properties of the rebuild command.                                      *)
(***************************************************************************)

\* The command has returned, every Embed succeeded and the last Flush
\* wrote the index as it was.
RebuildCompleted ==
    /\ thr["t2"].op = "rebuild" /\ CommandEnded
    /\ thr["t2"].failed = {}
    /\ ~dirty /\ metaFile.exists /\ metaFile.ok

\* The files of the directories on the command line.
ArgFiles ==
    UNION {{dirWalk(thr["t2"].results[i])[j] : j \in 1..Len(dirWalk(thr["t2"].results[i]))} :
             i \in 1..Len(thr["t2"].results)}

\* C35: after `rebuild d1 d2` has completed without interruption, the
\* flushed metadata holds the chunks of the supported files of every
\* directory on the command line, each chunk once, and nothing else.
RebuildIngestsAll ==
    RebuildCompleted =>
        /\ {metaFile.chunks[i].Path : i \in 1..Len(metaFile.chunks)} = ArgFiles
        /\ Len(metaFile.chunks) = Len(metasOf(ToSeq([k \in 1..Len(thr["t2"].results) |->
                                     [path |-> dirWalk(thr["t2"].results[k])[1], ver |-> 1]]), 1))

====
